---- MODULE Spec2Model ----
(***************************************************************************)
(* Invoice reconciliation tool: the upload / batch pipeline (handleFiles), *)
(* the extraction client (analyzeInvoice) and the audit list (auditList).  *)
(*                                                                         *)
(* Strings are sequences of tokens.  The tokens form a prefix-free code,   *)
(* so equality, concatenation and startsWith on token sequences agree with *)
(* the same operations on the JavaScript strings they spell.               *)
(***************************************************************************)
EXTENDS Integers, Sequences, FiniteSets, Bags, TLC

VARIABLES
    invoices,            \* project.invoices: the document store
    erpData,             \* project.erpData: the ledger records
    uploads,             \* number of handleFiles calls so far
    batch,               \* "none" | "running" | "returned": the handleFiles call in progress
    newProcessQueue,     \* handleFiles: the entries enqueued by this call
    queue,               \* handleFiles: the shared queue the workers shift from
    inFlight,            \* handleFiles: the bag of items whose processItem is awaited, one per
                         \* promise chain of initialBatch that has not resolved
    changesMap,          \* handleFiles: buffered changes, keyed by document id
    completedCount,      \* handleFiles: completedCount
    progress,            \* progress state {current, total, status}
    seenInvoiceNumbers,  \* handleFiles: normalized invoice numbers seen
    recorded,            \* history: per document id, the last change a worker of this batch recorded
    started,             \* history: the documents handed to processItem by this batch, in order
    auditList,           \* result of the audit-list computation
    ax,                  \* analyzeInvoice: the state of one top-level invocation
    review,              \* ErrorReviewPage: the selected item and the form data
    post,                \* analyzeInvoice: one response and what post-processing makes of it
    second,              \* a handleFiles call made while an earlier batch runs: its closure
    sheet                \* handleERPUpload: the rows of the spreadsheet and what is read from them

vars == << invoices, erpData, uploads, batch, newProcessQueue, queue, inFlight, changesMap,
           completedCount, progress, seenInvoiceNumbers, recorded, started, auditList, ax,
           review, post, second, sheet >>

(***************************************************************************)
(* Bounds of the model.                                                    *)
(***************************************************************************)
\* handleFiles calls per session
MaxUploads == 2
\* files per handleFiles call
MaxFiles == 3
\* files per handleFiles call after the first of the session
MaxLaterFiles == 1
\* Size of the worker pool.  The source sets 20; the model scales the pool
\* down so that queues longer than the pool are reached.
CONCURRENCY_LIMIT == 2

(***************************************************************************)
(* Strings                                                                 *)
(***************************************************************************)
Min(a, b) == IF a < b THEN a ELSE b

Abs(x) == IF x < 0 THEN -x ELSE x

Range(s) == { s[i] : i \in DOMAIN s }

\* String.prototype.toLowerCase / toUpperCase, token by token
LowerTok(t) ==
    CASE t = "JPG" -> "jpg"
      [] t = "TIF" -> "tif"
      [] t = "AB"  -> "ab"
      [] OTHER     -> t

UpperTok(t) ==
    CASE t = "jpg" -> "JPG"
      [] t = "tif" -> "TIF"
      [] t = "ab"  -> "AB"
      [] t = "a"   -> "A"
      [] t = "b"   -> "B"
      [] OTHER     -> t

toLowerCase(s) == [i \in DOMAIN s |-> LowerTok(s[i])]

toUpperCase(s) == [i \in DOMAIN s |-> UpperTok(s[i])]

\* s.lastIndexOf(t), 1-based; 0 when t does not occur (JavaScript: -1)
lastIndexOf(s, t) ==
    IF \E i \in DOMAIN s : s[i] = t
    THEN CHOOSE i \in DOMAIN s : s[i] = t /\ \A j \in DOMAIN s : s[j] = t => j <= i
    ELSE 0

startsWith(s, p) == Len(p) <= Len(s) /\ SubSeq(s, 1, Len(p)) = p

endsWith(s, p) == Len(p) <= Len(s) /\ SubSeq(s, Len(s) - Len(p) + 1, Len(s)) = p

\* s.includes(p): p occurs as a contiguous substring of s
includes(s, p) ==
    \E i \in 0..(Len(s) - Len(p)) : SubSeq(s, i + 1, i + Len(p)) = p

\* remove every token of the set drop: s.replace(/[...]/g, '')
RECURSIVE StripTokens(_, _)
StripTokens(s, drop) ==
    IF s = << >> THEN << >>
    ELSE IF Head(s) \in drop THEN StripTokens(Tail(s), drop)
    ELSE << Head(s) >> \o StripTokens(Tail(s), drop)

(***************************************************************************)
(* Values                                                                  *)
(***************************************************************************)
\* a string-valued field that is null, and one that is absent (undefined)
NullStr == << "<null>" >>

Undefined == << "<undefined>" >>

\* JavaScript falsiness of a string-valued field
Falsy(s) == s \in { << >>, NullStr, Undefined }

\* `value || ''` on a string-valued field
OrEmpty(s) == IF Falsy(s) THEN << >> ELSE s

\* a numeric field is << >> when absent and << n >> when it holds n
NoNumber == << >>

\* `value || 0` on a numeric field
OrZero(x) == IF x = NoNumber THEN 0 ELSE x[1]

\* inv.invoice_number.replace(/[\s-]/g, '').toUpperCase()
NormalizeInvoiceNumber(s) == toUpperCase(StripTokens(s, { " ", "-" }))

\* InvoiceData, types.ts
InvoiceData(type, code, number, name, taxId, sales, tax, total, valid, flagged, logs) ==
    [ document_type |-> type, error_code |-> code, invoice_number |-> number,
      seller_name |-> name, seller_tax_id |-> taxId,
      amount_sales |-> sales, amount_tax |-> tax, amount_total |-> total,
      logic_is_valid |-> valid, flagged_fields |-> flagged, trace_logs |-> logs ]

\* InvoiceEntry, types.ts; error is << >> while the entry has no error field
InvoiceEntry(id, name, status, data, error) ==
    [ id |-> id, name |-> name, status |-> status, data |-> data, error |-> error ]

(***************************************************************************)
(* handleFiles: the new invoice list and the process queue                 *)
(***************************************************************************)
\* file.name.toLowerCase().endsWith('.tif') || ...endsWith('.tiff')
isTif(name) ==
    \/ endsWith(toLowerCase(name), << ".", "tif" >>)
    \/ endsWith(toLowerCase(name), << ".", "tiff" >>)

\* convertTifToPng: file.name.replace(/\.[^/.]+$/, "") + ".png"
PngName(name) ==
    LET dot == lastIndexOf(name, ".")
        base == IF dot > 0 /\ dot < Len(name) THEN SubSeq(name, 1, dot - 1) ELSE name
    IN  base \o << ".", "png" >>

\* the file handed on after the TIF branch; a failed conversion keeps the original
ProcessedName(file) ==
    IF isTif(file.name) /\ file.conv THEN PngName(file.name) ELSE file.name

\* filename.substring(0, filename.lastIndexOf('.')) || filename
Stem(filename) ==
    LET dot == lastIndexOf(filename, ".")
        cut == IF dot > 0 THEN SubSeq(filename, 1, dot - 1) ELSE << >>
    IN  IF cut = << >> THEN filename ELSE cut

\* filename.split('.').pop()?.toLowerCase() || ''
Ext(filename) ==
    toLowerCase(SubSeq(filename, lastIndexOf(filename, ".") + 1, Len(filename)))

\* new Map(list.map(p => [p.id, p])).has(id)
MapHas(list, id) == \E i \in DOMAIN list : list[i].id = id

\* new Map(list.map(p => [p.id, p])).get(id): a later entry overwrites an earlier one
MapGet(list, id) ==
    list[CHOOSE i \in DOMAIN list :
            list[i].id = id /\ \A j \in DOMAIN list : list[j].id = id => j <= i]

\* list.find(n => n.id === id)
Find(list, id) ==
    list[CHOOSE i \in DOMAIN list :
            list[i].id = id /\ \A j \in DOMAIN list : list[j].id = id => i <= j]

\* existingMap.get(id) || nextInvoices.find(n => n.id === id)
Existing(currentInvoices, nextInvoices, id) ==
    IF MapHas(currentInvoices, id) THEN MapGet(currentInvoices, id)
    ELSE Find(nextInvoices, id)

\* the id of a file: its stem, with the extension appended when the stem is
\* the id of an entry that holds a file of another name
DocumentId(currentInvoices, nextInvoices, filename) ==
    LET id == Stem(filename)
    IN  IF /\ \/ MapHas(currentInvoices, id)
              \/ \E i \in DOMAIN nextInvoices :
                    nextInvoices[i].id = id /\ nextInvoices[i].name # filename
           /\ Existing(currentInvoices, nextInvoices, id).name # filename
        THEN id \o << "-" >> \o Ext(filename)
        ELSE id

\* nextInvoices.map(inv => inv.id === id ? entry : inv)
ReplaceById(list, id, entry) ==
    [i \in DOMAIN list |-> IF list[i].id = id THEN entry ELSE list[i]]

\* AddFile as it would be if the re-upload test looked at existingMap alone
AddFileCurrentOnly(currentInvoices, acc, file) ==
    LET filename == ProcessedName(file)
        id == DocumentId(currentInvoices, acc.next, filename)
        fresh == InvoiceEntry(id, filename, "PENDING", << >>, << >>)
    IN  IF MapHas(currentInvoices, id)
        THEN LET existing == MapGet(currentInvoices, id)
             IN  IF existing.status = "SUCCESS" /\ Len(existing.data) > 0
                 THEN [ next |-> ReplaceById(acc.next, id,
                                    [existing EXCEPT !.name = filename, !.status = "SUCCESS"]),
                        q |-> acc.q ]
                 ELSE [ next |-> ReplaceById(acc.next, id, fresh),
                        q |-> Append(acc.q, fresh) ]
        ELSE [ next |-> Append(acc.next, fresh), q |-> Append(acc.q, fresh) ]

\* AddFile as it would be if every re-upload reset and enqueued the entry
AddFileAlwaysReset(currentInvoices, acc, file) ==
    LET filename == ProcessedName(file)
        id == DocumentId(currentInvoices, acc.next, filename)
        fresh == InvoiceEntry(id, filename, "PENDING", << >>, << >>)
    IN  IF MapHas(currentInvoices, id) \/ MapHas(acc.next, id)
        THEN [ next |-> ReplaceById(acc.next, id, fresh), q |-> Append(acc.q, fresh) ]
        ELSE [ next |-> Append(acc.next, fresh), q |-> Append(acc.q, fresh) ]

\* one iteration of the loop over fileArray; acc = [next, q]
AddFile(currentInvoices, acc, file) ==
    LET filename == ProcessedName(file)
        id == DocumentId(currentInvoices, acc.next, filename)
        fresh == InvoiceEntry(id, filename, "PENDING", << >>, << >>)
    IN  IF MapHas(currentInvoices, id) \/ MapHas(acc.next, id)
        THEN LET existing == Existing(currentInvoices, acc.next, id)
             IN  IF existing.status = "SUCCESS" /\ Len(existing.data) > 0
                 THEN [ next |-> ReplaceById(acc.next, id,
                                    [existing EXCEPT !.name = filename, !.status = "SUCCESS"]),
                        q |-> acc.q ]
                 ELSE [ next |-> ReplaceById(acc.next, id, fresh),
                        q |-> Append(acc.q, fresh) ]
        ELSE [ next |-> Append(acc.next, fresh), q |-> Append(acc.q, fresh) ]

\* the loop over fileArray
RECURSIVE AddFiles(_, _, _)
AddFiles(currentInvoices, acc, files) ==
    IF files = << >> THEN acc
    ELSE AddFiles(currentInvoices, AddFile(currentInvoices, acc, Head(files)), Tail(files))

(***************************************************************************)
(* handleFiles: the worker pool and the buffered status publication        *)
(***************************************************************************)
\* new Map()
EmptyMap == [x \in {} |-> x]

\* map.set(key, value)
MapSet(map, key, value) ==
    [x \in DOMAIN map \cup { key } |-> IF x = key THEN value ELSE map[x]]

\* a Partial<InvoiceEntry>: fields names the properties the change carries besides status
Change(status, fields, data, error) ==
    [ status |-> status, fields |-> fields, data |-> data, error |-> error ]

\* { ...inv, ...change }
Merge(inv, change) ==
    [inv EXCEPT !.status = change.status,
                !.data = IF "data" \in change.fields THEN change.data ELSE @,
                !.error = IF "error" \in change.fields THEN change.error ELSE @]

\* prev.map(inv => { const change = changes.get(inv.id); return change ? {...inv, ...change} : inv })
ApplyChanges(prev, changes) ==
    [i \in DOMAIN prev |->
        IF prev[i].id \in DOMAIN changes THEN Merge(prev[i], changes[prev[i].id]) ELSE prev[i]]

\* the interval callback: snapshot the buffer, clear it, publish the snapshot
FlushInterval(prev, changes) ==
    [ invoices |-> ApplyChanges(prev, changes), changesMap |-> EmptyMap ]

\* FinalFlush as it would be if handleFiles ended at clearInterval
NoFinalFlush(prev, changes) == prev

\* the final flush after the pool has drained; the buffer is not cleared
FinalFlush(prev, changes) ==
    IF DOMAIN changes # {} THEN ApplyChanges(prev, changes) ELSE prev

\* seenInvoiceNumbers as built from the current invoices
SeenInvoiceNumbers(currentInvoices) ==
    UNION { { NormalizeInvoiceNumber(d.invoice_number) :
                d \in { x \in Range(inv.data) : ~Falsy(x.invoice_number) } } :
            inv \in Range(currentInvoices) }

DuplicateWarning == << "[System Warning] Duplicate Invoice Number Detected" >>

\* results.forEach(res => ...): the duplicate check; acc = [results, seen]
RECURSIVE DuplicateCheck(_, _)
DuplicateCheck(acc, todo) ==
    IF todo = << >> THEN acc
    ELSE LET res == Head(todo)
             normNo == NormalizeInvoiceNumber(OrEmpty(res.invoice_number))
         IN  IF normNo = << >>
             THEN DuplicateCheck([acc EXCEPT !.results = Append(@, res)], Tail(todo))
             ELSE IF normNo \in acc.seen
             THEN DuplicateCheck(
                    [acc EXCEPT !.results =
                        Append(@, [res EXCEPT !.trace_logs = Append(@, DuplicateWarning)])],
                    Tail(todo))
             ELSE DuplicateCheck(
                    [ results |-> Append(acc.results, res), seen |-> acc.seen \cup { normNo } ],
                    Tail(todo))

QuotaMessage == << "API quota exhausted" >>

FailedMessage == << "recognition failed" >>

NothingRecognized == << "nothing recognized" >>

\* ProcessItemResult as it would be if a failed extraction were not caught:
\* the item keeps the PROCESSING mark
ProcessItemResultUncaught(outcome, seen) ==
    IF outcome.kind = "results"
    THEN IF Len(outcome.results) > 0
         THEN LET checked == DuplicateCheck([ results |-> << >>, seen |-> seen ], outcome.results)
              IN  [ change |-> Change("SUCCESS", { "data" }, checked.results, << >>),
                    seen |-> checked.seen ]
         ELSE [ change |-> Change("ERROR", { "data", "error" }, << >>, NothingRecognized),
                seen |-> seen ]
    ELSE [ change |-> Change("PROCESSING", {}, << >>, << >>), seen |-> seen ]

\* the change processItem records for an outcome of the awaited extraction,
\* together with the seen set it leaves behind
ProcessItemResult(outcome, seen) ==
    IF outcome.kind = "results"
    THEN IF Len(outcome.results) > 0
         THEN LET checked == DuplicateCheck([ results |-> << >>, seen |-> seen ], outcome.results)
              IN  [ change |-> Change("SUCCESS", { "data" }, checked.results, << >>),
                    seen |-> checked.seen ]
         ELSE [ change |-> Change("ERROR", { "data", "error" }, << >>, NothingRecognized),
                seen |-> seen ]
    ELSE LET errorMsg == IF includes(outcome.message, << "429" >>) THEN QuotaMessage
                         ELSE IF outcome.message = << >> THEN FailedMessage
                         ELSE outcome.message
         IN  [ change |-> Change("ERROR", { "data", "error" }, << >>, errorMsg),
               seen |-> seen ]

\* await Promise.all(initialBatch) resolves once no promise chain awaits an item
PoolDrained == inFlight = EmptyBag

RECURSIVE SeqToBag(_)
SeqToBag(items) ==
    IF items = << >> THEN EmptyBag ELSE SetToBag({ Head(items) }) (+) SeqToBag(Tail(items))

\* InitialBatch as it would be if one processNext were started per queued item
InitialBatchUnbounded(q) == Len(q)

\* Array(Math.min(CONCURRENCY_LIMIT, queue.length)).fill(null).map(() => processNext()):
\* each call shifts one item and marks it PROCESSING before its first await
InitialBatch(q) == Min(CONCURRENCY_LIMIT, Len(q))

RECURSIVE MarkProcessing(_, _)
MarkProcessing(map, items) ==
    IF items = << >> THEN map
    ELSE MarkProcessing(MapSet(map, Head(items).id, Change("PROCESSING", {}, << >>, << >>)),
                        Tail(items))

Ids(list) == [i \in DOMAIN list |-> list[i].id]

(***************************************************************************)
(* Inputs of the upload and batch model                                    *)
(***************************************************************************)
\* document_type values of types.ts: the unified invoice, 'Invoice', the
\* customs declaration and the not-an-invoice class
STANDARD_INVOICE == "STANDARD_INVOICE"

COMMERCIAL_INVOICE == "Invoice"

CUSTOMS_DECLARATION == "CUSTOMS_DECLARATION"

NOT_INVOICE_TYPE == "NOT_INVOICE_TYPE"

\* names of the files a user uploads
FileNames ==
    { << "a", ".", "png" >>, << "a", ".", "pdf" >>, << "a", ".", "tif" >> }

\* a file, and whether convertTifToPng succeeds on it (read for TIF files only)
Files ==
    { f \in [ name : FileNames, conv : BOOLEAN ] : ~isTif(f.name) => f.conv }

RECURSIVE SeqsUpTo(_, _)
SeqsUpTo(S, n) ==
    IF n = 0 THEN { << >> }
    ELSE LET shorter == SeqsUpTo(S, n - 1)
         IN  shorter \cup { Append(q, x) : q \in { r \in shorter : Len(r) = n - 1 }, x \in S }

\* an extracted invoice as analyzeInvoice returns it
Extracted(number) ==
    InvoiceData(STANDARD_INVOICE, "SUCCESS", number, << "seller" >>, << "12345678" >>,
                << 100 >>, << 5 >>, << 105 >>, TRUE, << >>, << << "Started processing" >> >>)

\* what the awaited extraction of one document can give
Outcomes ==
    { [ kind |-> "results", results |-> << Extracted(<< "AB", "1" >>) >>, message |-> << >> ],
      [ kind |-> "results", results |-> << >>, message |-> << >> ],
      [ kind |-> "throw", results |-> << >>, message |-> << "429", "quota" >> ] }

(***************************************************************************)
(* The upload and batch model: state and actions                           *)
(***************************************************************************)
IdleProgress == [ current |-> 0, total |-> 0, status |-> "IDLE" ]

\* no response is being post-processed
NoPost ==
    [ pc |-> "idle", modelName |-> << >>, static |-> << >>, known |-> << >>, items |-> << >>,
      processedResults |-> << >>, results |-> << >> ]

\* no handleFiles call overlaps the running batch
NoSecond ==
    [ pc |-> "idle", files |-> << >>, currentInvoices |-> << >>, newProcessQueue |-> << >>,
      queue |-> << >>, inFlight |-> EmptyBag, changesMap |-> EmptyMap,
      seenInvoiceNumbers |-> {}, completedCount |-> 0, recorded |-> EmptyMap ]

\* no spreadsheet has been chosen
NoSheet == [ pc |-> "none", rows |-> << >>, parsed |-> << >> ]

\* no item of the error list is selected
NoReview == [ pc |-> "closed", entryId |-> << >>, invoiceIndex |-> 0, formData |-> << >> ]

\* analyzeInvoice is not running
NoCall ==
    [ pc |-> "idle", modelName |-> << >>, sellers |-> << >>, stack |-> << >>, fast |-> << >>,
      result |-> << >>, error |-> << >>, retries |-> 0, escalations |-> 0 ]

Init ==
    /\ invoices = << >>
    /\ erpData = << >>
    /\ uploads = 0
    /\ batch = "none"
    /\ newProcessQueue = << >>
    /\ queue = << >>
    /\ inFlight = EmptyBag
    /\ changesMap = EmptyMap
    /\ completedCount = 0
    /\ progress = IdleProgress
    /\ seenInvoiceNumbers = {}
    /\ recorded = EmptyMap
    /\ started = << >>
    /\ auditList = << >>
    /\ ax = NoCall
    /\ review = NoReview
    /\ post = NoPost
    /\ second = NoSecond
    /\ sheet = NoSheet

\* handleFiles(files), up to the first await of the pool.  A call that finds
\* nothing to process returns at once.
HandleFiles(files) ==
    LET acc == AddFiles(invoices, [ next |-> invoices, q |-> << >> ], files)
        n == InitialBatch(acc.q)
        first == SubSeq(acc.q, 1, n)
        marked == MarkProcessing(EmptyMap, first)
    IN  /\ invoices' = acc.next
        /\ uploads' = uploads + 1
        /\ newProcessQueue' = acc.q
        /\ seenInvoiceNumbers' = SeenInvoiceNumbers(invoices)
        /\ IF acc.q = << >>
           THEN /\ batch' = "none"
                /\ queue' = << >>
                /\ inFlight' = EmptyBag
                /\ changesMap' = EmptyMap
                /\ recorded' = EmptyMap
                /\ started' = << >>
                /\ completedCount' = 0
                /\ UNCHANGED progress
           ELSE /\ batch' = "running"
                /\ queue' = SubSeq(acc.q, n + 1, Len(acc.q))
                /\ inFlight' = SeqToBag(first)
                /\ changesMap' = marked
                /\ recorded' = marked
                /\ started' = Ids(first)
                /\ completedCount' = 0
                /\ progress' = [ current |-> 0, total |-> Len(acc.q), status |-> "PROCESSING" ]

\* the user picks files while no batch is running
Upload ==
    /\ batch # "running"
    /\ uploads < MaxUploads
    /\ \E files \in SeqsUpTo(Files, MaxFiles) :
          /\ files # << >>
          /\ uploads > 0 => Len(files) <= MaxLaterFiles
          /\ HandleFiles(files)
    /\ UNCHANGED << erpData, auditList, ax, review, post, second, sheet >>

\* ProcessItem as it would be if the pool worked in waves: the next items are
\* taken only when no other item of the wave is in flight
ProcessItemWave(item, outcome) ==
    LET done == ProcessItemResult(outcome, seenInvoiceNumbers)
        buffered == MapSet(changesMap, item.id, done.change)
        logged == MapSet(recorded, item.id, done.change)
        left == inFlight (-) SetToBag({ item })
        n == InitialBatch(queue)
        wave == SubSeq(queue, 1, n)
    IN  /\ seenInvoiceNumbers' = done.seen
        /\ completedCount' = completedCount + 1
        /\ progress' = [ current |-> completedCount + 1, total |-> Len(newProcessQueue),
                         status |-> "PROCESSING" ]
        /\ IF Len(queue) > 0 /\ left = EmptyBag
           THEN /\ inFlight' = SeqToBag(wave)
                /\ queue' = SubSeq(queue, n + 1, Len(queue))
                /\ changesMap' = MarkProcessing(buffered, wave)
                /\ recorded' = MarkProcessing(logged, wave)
                /\ started' = started \o Ids(wave)
           ELSE /\ inFlight' = left
                /\ queue' = queue
                /\ changesMap' = buffered
                /\ recorded' = logged
                /\ started' = started

\* ProcessItem as it would be if a document whose extraction failed were put
\* back at the end of the queue
ProcessItemRequeue(item, outcome) ==
    LET done == ProcessItemResult(outcome, seenInvoiceNumbers)
        buffered == MapSet(changesMap, item.id, done.change)
        logged == MapSet(recorded, item.id, done.change)
        processing == Change("PROCESSING", {}, << >>, << >>)
        again == IF done.change.status = "ERROR" /\ completedCount < Len(newProcessQueue)
                 THEN Append(queue, item) ELSE queue
    IN  /\ seenInvoiceNumbers' = done.seen
        /\ completedCount' = completedCount + 1
        /\ progress' = [ current |-> completedCount + 1, total |-> Len(newProcessQueue),
                         status |-> "PROCESSING" ]
        /\ IF Len(again) > 0
           THEN /\ inFlight' = (inFlight (-) SetToBag({ item })) (+) SetToBag({ Head(again) })
                /\ queue' = Tail(again)
                /\ changesMap' = MapSet(buffered, Head(again).id, processing)
                /\ recorded' = MapSet(logged, Head(again).id, processing)
                /\ started' = Append(started, Head(again).id)
           ELSE /\ inFlight' = inFlight (-) SetToBag({ item })
                /\ queue' = again
                /\ changesMap' = buffered
                /\ recorded' = logged
                /\ started' = started

\* processItem(item) after its awaited extraction settles, then processNext:
\* record the change, count the item, and take the next item if one is queued
ProcessItem(item, outcome) ==
    LET done == ProcessItemResult(outcome, seenInvoiceNumbers)
        buffered == MapSet(changesMap, item.id, done.change)
        logged == MapSet(recorded, item.id, done.change)
        processing == Change("PROCESSING", {}, << >>, << >>)
    IN  /\ seenInvoiceNumbers' = done.seen
        /\ completedCount' = completedCount + 1
        /\ progress' = [ current |-> completedCount + 1, total |-> Len(newProcessQueue),
                         status |-> "PROCESSING" ]
        /\ IF Len(queue) > 0
           THEN /\ inFlight' = (inFlight (-) SetToBag({ item })) (+) SetToBag({ Head(queue) })
                /\ queue' = Tail(queue)
                /\ changesMap' = MapSet(buffered, Head(queue).id, processing)
                /\ recorded' = MapSet(logged, Head(queue).id, processing)
                /\ started' = Append(started, Head(queue).id)
           ELSE /\ inFlight' = inFlight (-) SetToBag({ item })
                /\ queue' = queue
                /\ changesMap' = buffered
                /\ recorded' = logged
                /\ started' = started

WorkerFinish ==
    /\ batch = "running"
    /\ \E item \in BagToSet(inFlight) : \E outcome \in Outcomes : ProcessItem(item, outcome)
    /\ UNCHANGED << invoices, erpData, uploads, batch, newProcessQueue, auditList, ax, review, post, second, sheet >>

\* the 500 ms interval fires; the continuation of handleFiles after the pool
\* drains runs before any timer does
FlushTick ==
    /\ batch = "running"
    /\ ~PoolDrained
    /\ DOMAIN changesMap # {}
    /\ LET flushed == FlushInterval(invoices, changesMap)
       IN  /\ invoices' = flushed.invoices
           /\ changesMap' = flushed.changesMap
    /\ UNCHANGED << erpData, uploads, batch, newProcessQueue, queue, inFlight, completedCount,
                    progress, seenInvoiceNumbers, recorded, started, auditList, ax, review, post, second, sheet >>

\* handleFiles after await Promise.all(initialBatch): clearInterval, the final
\* flush, the COMPLETED progress
BatchReturn ==
    /\ batch = "running"
    /\ PoolDrained
    /\ invoices' = FinalFlush(invoices, changesMap)
    /\ batch' = "returned"
    /\ progress' = [ current |-> completedCount, total |-> Len(newProcessQueue),
                     status |-> "COMPLETED" ]
    /\ UNCHANGED << erpData, uploads, newProcessQueue, queue, inFlight, changesMap,
                    completedCount, seenInvoiceNumbers, recorded, started, auditList, ax, review, post, second, sheet >>

Next == Upload \/ WorkerFinish \/ FlushTick \/ BatchReturn

Spec == Init /\ [][Next]_vars

\* every awaited extraction settles, and the continuation after the pool runs
FairSpec == Spec /\ WF_vars(WorkerFinish) /\ WF_vars(BatchReturn)

\* handleDeleteOCR(id): the extraction of a document is discarded (the
\* selection of the editor, which it closes, is not part of the model)
HandleDeleteOCR(prev, id) ==
    [i \in DOMAIN prev |->
        IF prev[i].id = id THEN [prev[i] EXCEPT !.data = << >>, !.status = "PENDING"]
        ELSE prev[i]]

DeleteOCR ==
    /\ \E i \in DOMAIN invoices : invoices' = HandleDeleteOCR(invoices, invoices[i].id)
    /\ UNCHANGED << erpData, uploads, batch, newProcessQueue, queue, inFlight, changesMap,
                    completedCount, progress, seenInvoiceNumbers, recorded, started, auditList,
                    ax, review, post, second, sheet >>

\* a session of uploads in which the user may also discard extractions
NextSession == Upload \/ WorkerFinish \/ FlushTick \/ BatchReturn \/ DeleteOCR

SpecSession == Init /\ [][NextSession]_vars

(***************************************************************************)
(* Properties of the upload and batch model                                *)
(***************************************************************************)
\* the store entry of a document id
EntryOf(id) == Find(invoices, id)

\* every document of the batch is counted and stands resolved in the store
BatchResolved ==
    /\ completedCount = Len(newProcessQueue)
    /\ progress.current = Len(newProcessQueue)
    /\ \A i \in DOMAIN newProcessQueue :
          /\ MapHas(invoices, newProcessQueue[i].id)
          /\ EntryOf(newProcessQueue[i].id).status \in { "SUCCESS", "ERROR" }

\* C3: a batch of K queued documents, whatever the extraction of each gives
\* (results, no results, a failure), returns; when it has returned the
\* completed count is K and each of the K documents is SUCCESS or ERROR.
C3_BatchReturnsResolved ==
    /\ [](batch = "returned" => BatchResolved)
    /\ (batch = "running" ~> batch = "returned")

\* a returned batch of three documents: the one started first failed, the one
\* started last succeeded
C3_Witness ==
    /\ batch = "returned"
    /\ Len(started) = 3
    /\ Cardinality(Range(started)) = 3
    /\ EntryOf(started[1]).status = "ERROR"
    /\ EntryOf(started[3]).status = "SUCCESS"

C6_DistinctIds ==
    \A i, j \in DOMAIN invoices : invoices[i].id = invoices[j].id => i = j

\* after a second upload the collection holds three files that share a stem
C6_Witness ==
    /\ uploads = 2
    /\ Len(invoices) = 3
    /\ \A i \in DOMAIN invoices : Stem(invoices[i].name) = << "a" >>

(***************************************************************************)
(* auditList: the reconciliation of ledger records and documents           *)
(***************************************************************************)
\* ERPRecord, types.ts: the fields auditList reads
ERPRecord(voucher, numbers, taxId, total) ==
    [ voucher_id |-> voucher, invoice_numbers |-> numbers, seller_tax_id |-> taxId,
      amount_total |-> total ]

\* new Map(project.invoices.map(i => [i.id, i])): the entries in key order
RECURSIVE FileMap(_, _)
FileMap(list, i) ==
    IF i > Len(list) THEN << >>
    ELSE IF \E j \in 1..(i - 1) : list[j].id = list[i].id THEN FileMap(list, i + 1)
    ELSE << MapGet(list, list[i].id) >> \o FileMap(list, i + 1)

\* PrefixMatch as it would be if the voucher id were looked for anywhere in the key
PrefixMatchAnywhere(key, voucher) == includes(key, voucher)

\* key.startsWith(erp.voucher_id + '-') || key.startsWith(erp.voucher_id + '_')
PrefixMatch(key, voucher) ==
    \/ startsWith(key, voucher \o << "-" >>)
    \/ startsWith(key, voucher \o << "_" >>)

\* the prefix loop over fileMap.entries()
PrefixMatches(fileMap, voucher) ==
    SelectSeq(fileMap, LAMBDA entry : entry.id # voucher /\ PrefixMatch(entry.id, voucher))

\* MatchingFiles as it would be with the exact match alone
MatchingFilesExact(fileMap, voucher) ==
    IF MapHas(fileMap, voucher) THEN << MapGet(fileMap, voucher) >> ELSE << >>

\* matchingFiles: the exact match first, then the prefix matches
MatchingFiles(fileMap, voucher) ==
    (IF MapHas(fileMap, voucher) THEN << MapGet(fileMap, voucher) >> ELSE << >>)
        \o PrefixMatches(fileMap, voucher)

\* matchingFiles.flatMap(f => f.data)
RECURSIVE FlatData(_)
FlatData(files) ==
    IF files = << >> THEN << >> ELSE Head(files).data \o FlatData(Tail(files))

\* allOCRInvoices: an invoice with a number is kept at its first occurrence
\* with the same number and total; an invoice without a number is kept
Deduplicate(raw) ==
    LET Keep(i) ==
          \/ Falsy(raw[i].invoice_number)
          \/ ~\E j \in 1..(i - 1) :
                /\ raw[j].invoice_number = raw[i].invoice_number
                /\ raw[j].amount_total = raw[i].amount_total
        RECURSIVE From(_)
        From(i) == IF i > Len(raw) THEN << >>
                   ELSE (IF Keep(i) THEN << raw[i] >> ELSE << >>) \o From(i + 1)
    IN  From(1)

\* ocrInvNo.includes(erpNo) || erpNo.includes(ocrInvNo)
NumbersMatch(erpNo, ocrInvNo) == includes(ocrInvNo, erpNo) \/ includes(erpNo, ocrInvNo)

\* ledger token erpNo against extracted number ocrInvNo, both normalized: an
\* empty extracted number never matches
InvoiceNumberMatches(erpNo, ocrInvNo) == ocrInvNo # << >> /\ NumbersMatch(erpNo, ocrInvNo)

\* inv.document_type !== NOT_INVOICE_TYPE && inv.error_code !== 'NOT_INVOICE'
IsValidInvoice(inv) == inv.document_type # NOT_INVOICE_TYPE /\ inv.error_code # "NOT_INVOICE"

\* the invoices matched to the ledger record, single-candidate fallback included
MatchedOCRInvoices(erp, allOCRInvoices) ==
    LET erpInvNos == [i \in DOMAIN erp.invoice_numbers |->
                        NormalizeInvoiceNumber(erp.invoice_numbers[i])]
        byNumber == SelectSeq(allOCRInvoices, LAMBDA inv :
                        LET ocrInvNo == NormalizeInvoiceNumber(OrEmpty(inv.invoice_number))
                        IN  /\ ocrInvNo # << >>
                            /\ IsValidInvoice(inv)
                            /\ \E i \in DOMAIN erpInvNos : NumbersMatch(erpInvNos[i], ocrInvNo))
        valid == SelectSeq(allOCRInvoices, IsValidInvoice)
    IN  IF Len(byNumber) = 0 /\ Len(erpInvNos) = 1 /\ Len(valid) = 1
        THEN << valid[1] >>
        ELSE byNumber

RECURSIVE SumTotals(_)
SumTotals(list) ==
    IF list = << >> THEN 0 ELSE OrZero(Head(list).amount_total) + SumTotals(Tail(list))

\* DiffDetails as it would be without the check for an illegible tax id
DiffDetailsTaxIdOnly(erp, matched) ==
    LET erpTaxId == OrEmpty(erp.seller_tax_id)
        checked == SelectSeq(matched, LAMBDA inv : inv.document_type # COMMERCIAL_INVOICE)
        amount == IF Abs(SumTotals(matched) - erp.amount_total) > 1 THEN << "amount" >> ELSE << >>
        differs == \E i \in DOMAIN checked :
                      LET ocrTaxId == OrEmpty(checked[i].seller_tax_id)
                      IN  ocrTaxId # << >> /\ erpTaxId # << >> /\ ocrTaxId # erpTaxId
        count == IF Len(erp.invoice_numbers) # Len(matched) THEN << "count_mismatch" >> ELSE << >>
    IN  amount \o (IF differs THEN << "tax_id" >> ELSE << >>) \o count

\* DiffDetails as it would be if the tax ids of commercial invoices were
\* compared as well
DiffDetailsAllTypes(erp, matched) ==
    LET erpTaxId == OrEmpty(erp.seller_tax_id)
        amount == IF Abs(SumTotals(matched) - erp.amount_total) > 1 THEN << "amount" >> ELSE << >>
        Reasons(inv) ==
            LET ocrTaxId == OrEmpty(inv.seller_tax_id)
            IN  (IF ocrTaxId # << >> /\ erpTaxId # << >> /\ ocrTaxId # erpTaxId
                 THEN << "tax_id" >> ELSE << >>)
                \o (IF includes(ocrTaxId, << "?" >>) THEN << "tax_id_unclear" >> ELSE << >>)
        RECURSIVE Push(_, _)
        Push(acc, todo) ==
            IF todo = << >> THEN acc
            ELSE Push(acc \o SelectSeq(Reasons(Head(todo)), LAMBDA r : r \notin Range(acc)),
                      Tail(todo))
        count == IF Len(erp.invoice_numbers) # Len(matched) THEN << "count_mismatch" >> ELSE << >>
    IN  Push(amount, matched) \o count

\* diffDetails of a ledger record with matched documents and extracted invoices
DiffDetails(erp, matched) ==
    LET erpTaxId == OrEmpty(erp.seller_tax_id)
        checked == SelectSeq(matched, LAMBDA inv : inv.document_type # COMMERCIAL_INVOICE)
        amount == IF Abs(SumTotals(matched) - erp.amount_total) > 1 THEN << "amount" >> ELSE << >>
        \* the forEach pushes each reason once, in the order it first applies
        Reasons(inv) ==
            LET ocrTaxId == OrEmpty(inv.seller_tax_id)
            IN  (IF ocrTaxId # << >> /\ erpTaxId # << >> /\ ocrTaxId # erpTaxId
                 THEN << "tax_id" >> ELSE << >>)
                \o (IF includes(ocrTaxId, << "?" >>) THEN << "tax_id_unclear" >> ELSE << >>)
        RECURSIVE Push(_, _)
        Push(acc, todo) ==
            IF todo = << >> THEN acc
            ELSE Push(acc \o SelectSeq(Reasons(Head(todo)), LAMBDA r : r \notin Range(acc)),
                      Tail(todo))
        count == IF Len(erp.invoice_numbers) # Len(matched) THEN << "count_mismatch" >> ELSE << >>
    IN  Push(amount, checked) \o count

\* RowStatus as it would be if only a difference of the amounts made a mismatch
RowStatusByAmount(matchingFiles, diffDetails) ==
    IF Len(matchingFiles) = 0 THEN "MISSING_FILE"
    ELSE IF "amount" \in Range(diffDetails) THEN "MISMATCH"
    ELSE "MATCH"

\* auditStatus: MATCH unless a branch sets it otherwise
RowStatus(matchingFiles, diffDetails) ==
    IF Len(matchingFiles) = 0 THEN "MISSING_FILE"
    ELSE IF Len(diffDetails) > 0 THEN "MISMATCH"
    ELSE "MATCH"

\* LedgerRow as it would be if documents without any extracted invoice gave
\* no reason
LedgerRowNoReason(erp, index, fileMap) ==
    LET matchingFiles == MatchingFiles(fileMap, erp.voucher_id)
        allOCRInvoices == Deduplicate(FlatData(matchingFiles))
        diffDetails == IF Len(matchingFiles) > 0 /\ Len(allOCRInvoices) > 0
                       THEN DiffDetails(erp, MatchedOCRInvoices(erp, allOCRInvoices))
                       ELSE << >>
    IN  [ key |-> erp.voucher_id \o << "_", ToString(index - 1) >>,
          id |-> erp.voucher_id,
          erp |-> << erp >>,
          files |-> matchingFiles,
          auditStatus |-> RowStatus(matchingFiles, diffDetails),
          diffDetails |-> diffDetails ]

\* the row of ledger record erpData[index]: the fields that classify it (the
\* display fields file, ocr and initialInvoiceIndex are left out)
LedgerRow(erp, index, fileMap) ==
    LET matchingFiles == MatchingFiles(fileMap, erp.voucher_id)
        allOCRInvoices == Deduplicate(FlatData(matchingFiles))
        matched == IF Len(matchingFiles) > 0 /\ Len(allOCRInvoices) > 0
                   THEN MatchedOCRInvoices(erp, allOCRInvoices) ELSE << >>
        diffDetails == IF Len(matchingFiles) = 0 THEN << >>
                       ELSE IF Len(allOCRInvoices) > 0 THEN DiffDetails(erp, matched)
                       ELSE << "no_match_found" >>
        auditStatus == RowStatus(matchingFiles, diffDetails)
    IN  [ key |-> erp.voucher_id \o << "_", ToString(index - 1) >>,
          id |-> erp.voucher_id,
          erp |-> << erp >>,
          files |-> matchingFiles,
          auditStatus |-> auditStatus,
          diffDetails |-> diffDetails ]

\* MappedRows as it would be if the rows were keyed by voucher id: a later
\* record of a voucher id replaces the earlier one
MappedRowsByVoucher(ledger, fileMap) ==
    LET kept == SelectSeq([i \in DOMAIN ledger |-> i], LAMBDA i :
                    ~\E j \in (i + 1)..Len(ledger) : ledger[j].voucher_id = ledger[i].voucher_id)
    IN  [n \in DOMAIN kept |-> LedgerRow(ledger[kept[n]], kept[n], fileMap)]

\* project.erpData.map((erp, index) => ...)
MappedRows(ledger, fileMap) ==
    [index \in DOMAIN ledger |-> LedgerRow(ledger[index], index, fileMap)]

\* matchedFileIds after the rows have been built
MatchedFileIds(rows) == UNION { { f.id : f \in Range(r.files) } : r \in Range(rows) }

\* the rows of the files no ledger record matched; erp is null
ExtraFiles(documents, matchedFileIds) ==
    LET extra == SelectSeq(documents, LAMBDA f : f.id \notin matchedFileIds)
    IN  [i \in DOMAIN extra |->
            [ key |-> << "extra", "_" >> \o extra[i].id,
              id |-> extra[i].id,
              erp |-> << >>,
              files |-> << extra[i] >>,
              auditStatus |-> "EXTRA_FILE",
              diffDetails |-> << >> ]]

\* the collation rank of a token: punctuation, then digits, then letters
CollationRank(t) ==
    CASE t = "_" -> 1
      [] t = "-" -> 2
      [] t = "." -> 3
      [] t = "1" -> 4
      [] t = "2" -> 5
      [] t = "a" -> 6
      [] t = "b" -> 7
      [] t = "c" -> 8
      [] OTHER   -> 9

\* a.localeCompare(b) < 0, token by token
RECURSIVE ComesBefore(_, _)
ComesBefore(a, b) ==
    IF b = << >> THEN FALSE
    ELSE IF a = << >> THEN TRUE
    ELSE IF CollationRank(Head(a)) # CollationRank(Head(b))
         THEN CollationRank(Head(a)) < CollationRank(Head(b))
    ELSE ComesBefore(Tail(a), Tail(b))

\* rows.sort((a, b) => a.id.localeCompare(b.id)): a stable sort by id
RECURSIVE SortRows(_)
SortRows(rows) ==
    IF rows = << >> THEN << >>
    ELSE LET rest == SortRows(Tail(rows))
             row == Head(rows)
             \* row, the earlier one, stays ahead of the rows that compare equal to it
             before == SelectSeq(rest, LAMBDA r : ComesBefore(r.id, row.id))
             after == SelectSeq(rest, LAMBDA r : ~ComesBefore(r.id, row.id))
         IN  before \o << row >> \o after

\* auditList for a project
AuditList(ledger, documents) ==
    LET fileMap == FileMap(documents, 1)
        mappedRows == MappedRows(ledger, fileMap)
    IN  SortRows(mappedRows \o ExtraFiles(documents, MatchedFileIds(mappedRows)))

(***************************************************************************)
(* The audit list of a project with a ledger and documents                 *)
(***************************************************************************)
MaxLedger == 2
MaxDocuments == 2

VoucherIds == { << "a" >>, << "a", "-", "b" >>, << "b" >> }

DocumentIds ==
    { << "a" >>, << "a", "-", "1" >>, << "a", "_", "1" >>, << "a", "-", "b" >>,
      << "a", "-", "b", "-", "1" >>, << "b", "-", "1" >>, << "c" >> }

LedgerRecords == { ERPRecord(v, << << "AB", "1" >> >>, << "12345678" >>, 105) : v \in VoucherIds }

\* a stored document: extracted, or failed with nothing extracted
Documents ==
    { InvoiceEntry(id, id \o << ".", "pdf" >>, "SUCCESS", << Extracted(<< "AB", "1" >>) >>, << >>)
        : id \in DocumentIds }
    \cup { InvoiceEntry(id, id \o << ".", "pdf" >>, "ERROR", << >>, NothingRecognized)
        : id \in DocumentIds }

DistinctIds(list) == \A i, j \in DOMAIN list : list[i].id = list[j].id => i = j

InitReconcile ==
    /\ erpData \in SeqsUpTo(LedgerRecords, MaxLedger)
    /\ invoices \in { d \in SeqsUpTo(Documents, MaxDocuments) : DistinctIds(d) }
    /\ erpData # << >> \/ invoices # << >>
    /\ uploads = 0
    /\ batch = "none"
    /\ newProcessQueue = << >>
    /\ queue = << >>
    /\ inFlight = EmptyBag
    /\ changesMap = EmptyMap
    /\ completedCount = 0
    /\ progress = IdleProgress
    /\ seenInvoiceNumbers = {}
    /\ recorded = EmptyMap
    /\ started = << >>
    /\ auditList = << >>
    /\ ax = NoCall
    /\ review = NoReview
    /\ post = NoPost
    /\ second = NoSecond
    /\ sheet = NoSheet

\* the memoized computation runs for the project on display
ComputeAuditList ==
    /\ auditList = << >>
    /\ auditList' = AuditList(erpData, invoices)
    /\ UNCHANGED << invoices, erpData, uploads, batch, newProcessQueue, queue, inFlight,
                    changesMap, completedCount, progress, seenInvoiceNumbers, recorded,
                    started, ax, review, post, second, sheet >>

NextReconcile == ComputeAuditList

SpecReconcile == InitReconcile /\ [][NextReconcile]_vars

\* the ledger or the store is not empty, so a computed list has a row
Audited == auditList # << >>

LedgerRowsOf(rows) == SelectSeq(rows, LAMBDA r : r.erp # << >>)
ExtraRowsOf(rows) == SelectSeq(rows, LAMBDA r : r.erp = << >>)

\* some ledger record claims the document: its voucher id is the document id
\* or is followed in it by '-' or '_'
Claimed(doc) ==
    \E k \in DOMAIN erpData :
        \/ doc.id = erpData[k].voucher_id
        \/ startsWith(doc.id, erpData[k].voucher_id \o << "-" >>)
        \/ startsWith(doc.id, erpData[k].voucher_id \o << "_" >>)

\* C1: the audit list has exactly one row per ledger record, also for records
\* that share a voucher id, exactly one EXTRA_FILE row with no ledger record
\* per document that no ledger record claimed, and no other row
C1_RowsCoverInputs ==
    Audited =>
        LET ledgerRows == LedgerRowsOf(auditList)
            extraRows == ExtraRowsOf(auditList)
            unclaimed == SelectSeq(invoices, LAMBDA d : ~Claimed(d))
        IN  /\ SeqToBag([i \in DOMAIN ledgerRows |-> ledgerRows[i].erp[1]]) = SeqToBag(erpData)
            /\ Len(ledgerRows) = Len(erpData)
            /\ \A k \in DOMAIN erpData :
                  Cardinality({ i \in DOMAIN ledgerRows :
                      ledgerRows[i].key = erpData[k].voucher_id \o << "_", ToString(k - 1) >> }) = 1
            /\ \A i \in DOMAIN extraRows :
                  /\ extraRows[i].auditStatus = "EXTRA_FILE"
                  /\ Len(extraRows[i].files) = 1
                  /\ extraRows[i].files[1].id = extraRows[i].id
            /\ \A i \in DOMAIN ledgerRows : ledgerRows[i].auditStatus # "EXTRA_FILE"
            /\ SeqToBag([i \in DOMAIN extraRows |-> extraRows[i].files[1]]) = SeqToBag(unclaimed)
            /\ Len(auditList) = Len(erpData) + Len(unclaimed)

\* two ledger records share a voucher id, one document is claimed and another is not
C1_Witness ==
    /\ Audited
    /\ Len(erpData) = 2
    /\ erpData[1].voucher_id = erpData[2].voucher_id
    /\ Len(invoices) = 2
    /\ Len(ExtraRowsOf(auditList)) = 1
    /\ Len(auditList) = 3

\* the voucher ids are related: equal, or one followed by '-' or '_' starts the other
Related(v, w) ==
    \/ v = w
    \/ \E sep \in { "-", "_" } : startsWith(w, v \o << sep >>) \/ startsWith(v, w \o << sep >>)

\* C2 as stated: no document is among the files of two different ledger rows
C2_AtMostOneClaim ==
    Audited =>
        LET ledgerRows == LedgerRowsOf(auditList)
        IN  \A i, j \in DOMAIN ledgerRows :
                i # j => { f.id : f \in Range(ledgerRows[i].files) }
                            \cap { f.id : f \in Range(ledgerRows[j].files) } = {}

\* C2, amended: no document is among the files of two ledger rows whose
\* voucher ids are unrelated, that is, different and neither followed by '-'
\* or '_' a prefix of the other
C2_AtMostOneClaimUnrelated ==
    Audited =>
        LET ledgerRows == LedgerRowsOf(auditList)
        IN  \A i, j \in DOMAIN ledgerRows :
                (i # j /\ ~Related(ledgerRows[i].id, ledgerRows[j].id))
                    => { f.id : f \in Range(ledgerRows[i].files) }
                         \cap { f.id : f \in Range(ledgerRows[j].files) } = {}

\* two unrelated voucher ids, each claiming one of two documents, one of
\* which has both voucher ids in its id
C2_Witness ==
    /\ Audited
    /\ Len(erpData) = 2
    /\ ~Related(erpData[1].voucher_id, erpData[2].voucher_id)
    /\ Len(invoices) = 2
    /\ \E d \in Range(invoices) :
          \A k \in DOMAIN erpData : includes(d.id, erpData[k].voucher_id)
    /\ \A r \in Range(LedgerRowsOf(auditList)) : Len(r.files) = 1

(***************************************************************************)
(* analyzeInvoice: post-processing of the items of a response              *)
(***************************************************************************)
\* an item of the response without error_code
NoCode == ""

\* { ...STATIC_SELLERS, ...knownSellers } as Object.entries lists it: the
\* static names in their order, with the known id where the name is known
\* too, then the names only known
MergeSellers(static, known) ==
    LET Known(name) == \E k \in DOMAIN known : known[k].name = name
        IdOf(name) == known[CHOOSE k \in DOMAIN known :
                                /\ known[k].name = name
                                /\ \A j \in DOMAIN known : known[j].name = name => j <= k].id
    IN  [i \in DOMAIN static |->
            IF Known(static[i].name) THEN [ name |-> static[i].name, id |-> IdOf(static[i].name) ]
            ELSE static[i]]
        \o SelectSeq(known, LAMBDA e : ~\E i \in DOMAIN static : static[i].name = e.name)

Log(item, line) == [item EXCEPT !.trace_logs = Append(@, line)]

\* the first two log lines and the default error code
StartItem(item, modelName) ==
    LET code == IF item.error_code = NoCode THEN "SUCCESS" ELSE item.error_code
    IN  [item EXCEPT !.error_code = code,
                     !.trace_logs = << << "Started processing" >>, << "Model: " >> \o modelName,
                                       << "Initial Error Code: ", code >> >>]

\* A. the tax id of the first seller table name that the seller name includes
EnrichSeller(item, sellers) ==
    IF /\ ~Falsy(item.seller_name)
       /\ Falsy(item.seller_tax_id) \/ includes(item.seller_tax_id, << "?" >>)
       /\ \E i \in DOMAIN sellers : includes(item.seller_name, sellers[i].name)
    THEN LET i == CHOOSE i \in DOMAIN sellers :
                    /\ includes(item.seller_name, sellers[i].name)
                    /\ \A j \in 1..(i - 1) : ~includes(item.seller_name, sellers[j].name)
         IN  Log([item EXCEPT !.seller_tax_id = sellers[i].id],
                 << "Enriched: Found Seller Tax ID from DB" >>)
    ELSE item

\* /^[A-Z]{2}\d{8}$/ on the tokens left by replace(/[^A-Z0-9]/g, '')
UpperOrDigit == { "AB", "INV", "1", "2", "12345678" }

GuiFormat(cleanInv) == cleanInv = << "AB", "12345678" >>

\* C. the warning for a number that is not in the unified invoice format
WarnFormat(item) ==
    IF /\ ~Falsy(item.invoice_number)
       /\ ~startsWith(item.invoice_number, << "INV" >>)
       /\ ~includes(item.invoice_number, << "-" >>)
       /\ ~GuiFormat(SelectSeq(item.invoice_number, LAMBDA t : t \in UpperOrDigit))
    THEN Log(item, << "Warning: Invoice Number does not match standard Taiwan GUI format" >>)
    ELSE item

\* Rule 1: invoice_number.replace(/\s+/g, '').toUpperCase()
CleanInvoiceNumber(item) ==
    IF Falsy(item.invoice_number) THEN item
    ELSE LET cleaned == toUpperCase(StripTokens(item.invoice_number, { " " }))
         IN  IF cleaned # item.invoice_number
             THEN Log([item EXCEPT !.invoice_number = cleaned], << "Rule 1: Cleaned Invoice Number" >>)
             ELSE item

\* Rule 2: a tax id with '?' is flagged once
FlagUnclearTaxId(item) ==
    IF /\ ~Falsy(item.seller_tax_id)
       /\ includes(item.seller_tax_id, << "?" >>)
       /\ "seller_tax_id" \notin Range(item.flagged_fields)
    THEN Log([item EXCEPT !.flagged_fields = Append(@, "seller_tax_id")],
             << "Rule 2: Flagged unclear Seller Tax ID" >>)
    ELSE item

\* Rule 3, auto-swap: a total that is positive and less than the tax
SwapTotalAndTax(item) ==
    LET tax == OrZero(item.amount_tax)
        total == OrZero(item.amount_total)
    IN  IF total > 0 /\ total < tax
        THEN Log([item EXCEPT !.amount_total = << tax >>, !.amount_tax = << total >>],
                 << "Fixed: Swapped Total and Tax" >>)
        ELSE item

\* the tolerance of Rule 3
AmountTolerance == 1

\* CorrectTotal as it would be if a mismatch were only reported
CorrectTotalFlagOnly(item) ==
    LET calculatedTotal == OrZero(item.amount_sales) + OrZero(item.amount_tax)
    IN  IF Abs(OrZero(item.amount_total) - calculatedTotal) > AmountTolerance
        THEN Log([item EXCEPT !.logic_is_valid = FALSE], << "Rule 3: Amount Mismatch" >>)
        ELSE Log(item, << "Rule 3: Amount Logic Valid" >>)

\* Rule 3: a total off by more than the tolerance is replaced by sales + tax
CorrectTotal(item) ==
    LET calculatedTotal == OrZero(item.amount_sales) + OrZero(item.amount_tax)
    IN  IF Abs(OrZero(item.amount_total) - calculatedTotal) > AmountTolerance
        THEN Log([item EXCEPT !.amount_total = << calculatedTotal >>, !.logic_is_valid = TRUE],
                 << "Rule 3: Amount Mismatch - auto-correcting total" >>)
        ELSE Log(item, << "Rule 3: Amount Logic Valid" >>)

\* PostProcess as it would be if the swap came after the correction of the total
PostProcessSwapLast(item, modelName, sellers) ==
    SwapTotalAndTax(CorrectTotal(FlagUnclearTaxId(CleanInvoiceNumber(WarnFormat(
        EnrichSeller(StartItem(item, modelName), sellers))))))

\* results.map(async (item) => ...): the rules in their order
PostProcess(item, modelName, sellers) ==
    CorrectTotal(SwapTotalAndTax(FlagUnclearTaxId(CleanInvoiceNumber(WarnFormat(
        EnrichSeller(StartItem(item, modelName), sellers))))))

\* the distance within which a numbered result makes an unnumbered one a ghost
GhostTolerance == 5

\* DropGhosts as it would be if any other entry with a matching total, numbered
\* or not, made a numberless entry a ghost
DropGhostsAnyOther(results) ==
    LET Ghost(i) ==
          /\ results[i].document_type # NOT_INVOICE_TYPE
          /\ Falsy(results[i].invoice_number)
          /\ \E j \in DOMAIN results :
                /\ j # i
                /\ Abs(OrZero(results[j].amount_total) - OrZero(results[i].amount_total))
                      <= GhostTolerance
        Marked(i) == IF results[i].document_type = NOT_INVOICE_TYPE
                     THEN [results[i] EXCEPT !.error_code = "NOT_INVOICE"]
                     ELSE results[i]
        RECURSIVE From(_)
        From(i) == IF i > Len(results) THEN << >>
                   ELSE (IF Ghost(i) THEN << >> ELSE << Marked(i) >>) \o From(i + 1)
    IN  From(1)

\* the filter that drops ghost results and marks the non-invoice ones
DropGhosts(results) ==
    LET Ghost(i) ==
          /\ results[i].document_type # NOT_INVOICE_TYPE
          /\ Falsy(results[i].invoice_number)
          /\ \E j \in DOMAIN results :
                /\ j # i
                /\ ~Falsy(results[j].invoice_number)
                /\ Abs(OrZero(results[j].amount_total) - OrZero(results[i].amount_total))
                      <= GhostTolerance
        Marked(i) == IF results[i].document_type = NOT_INVOICE_TYPE
                     THEN [results[i] EXCEPT !.error_code = "NOT_INVOICE"]
                     ELSE results[i]
        RECURSIVE From(_)
        From(i) == IF i > Len(results) THEN << >>
                   ELSE (IF Ghost(i) THEN << >> ELSE << Marked(i) >>) \o From(i + 1)
    IN  From(1)

\* the results of a response with text: post-processed, then without ghosts
Results(items, modelName, sellers) ==
    DropGhosts([i \in DOMAIN items |-> PostProcess(items[i], modelName, sellers)])

(***************************************************************************)
(* analyzeInvoice: one top-level invocation with its retries and its       *)
(* escalation.  ax.stack holds the invocations that have not settled, the  *)
(* caller first; the last one awaits generateContent or sleeps.            *)
(***************************************************************************)
FLASH == << "gemini-2.5-flash" >>
HYBRID == << "gemini-2.5-flash", "-", "hybrid" >>
PRO == << "gemini-2.5-pro" >>

IsHybrid(modelName) == includes(modelName, << "hybrid" >>)

\* the model generateContent is called with
EffectiveModel(modelName) == IF IsHybrid(modelName) THEN FLASH ELSE modelName

\* the retry limit of the catch block
MaxRetries == 3

\* err?.message?.includes('429') || err?.status === 503 || err?.status === 500
IsRetryable(err) == err.has429 \/ err.status = 503 \/ err.status = 500

\* NeedsEscalation as it would be without the logic_is_valid test
NeedsEscalationNoLogic(results) ==
    \E i \in DOMAIN results :
        results[i].error_code # "SUCCESS" \/ results[i].invoice_number = Undefined

\* needsEscalation
NeedsEscalation(results) ==
    \E i \in DOMAIN results :
        \/ results[i].error_code # "SUCCESS"
        \/ ~results[i].logic_is_valid
        \/ results[i].invoice_number = Undefined

EscalationLog == << "[System] Auto-escalated from Hybrid Flash to Pro due to validation failure." >>

\* proResults.map(...): the escalation log goes first
WithEscalationLog(proResults) ==
    [i \in DOMAIN proResults |-> [proResults[i] EXCEPT !.trace_logs = << EscalationLog >> \o @]]

Frame(modelName, retryCount) == [ modelName |-> modelName, retryCount |-> retryCount ]

Top(stack) == stack[Len(stack)]

Front(stack) == SubSeq(stack, 1, Len(stack) - 1)

\* what the top-level caller receives when the last invocation returns
\* results: every invocation before it awaits an escalation call
RECURSIVE ReturnValue(_, _)
ReturnValue(stack, results) ==
    IF Len(stack) = 1 THEN results
    ELSE ReturnValue(Front(stack), WithEscalationLog(results))

\* the invocations left after err reaches the catch block of the last one:
\* it stays, to sleep and retry, or it rethrows to the invocation before it
RECURSIVE Catch(_, _)
Catch(stack, err) ==
    IF stack = << >> THEN << >>
    ELSE IF IsRetryable(err) /\ Top(stack).retryCount < MaxRetries THEN stack
    ELSE Catch(Front(stack), err)

(***************************************************************************)
(* The inputs of an invocation                                             *)
(***************************************************************************)
\* items per response
MaxItems == 2

ModelNames == { FLASH, HYBRID, PRO }

SellerName == << "ACME", " ", "Co" >>

\* seller_db.json is read at run time
StaticSellerTables == { << >>, << [ name |-> << "ACME" >>, id |-> << "11111111" >> ] >> }

KnownSellerTables == { << >>, << [ name |-> SellerName, id |-> << "22222222" >> ] >> }

RawItem(type, code, number, taxId, sales, tax, total, valid) ==
    InvoiceData(type, code, number, SellerName, taxId, sales, tax, total, valid, << >>, << >>)

\* a clean invoice
CleanItem ==
    RawItem(STANDARD_INVOICE, NoCode, << "ab", " ", "12345678" >>, << "12345678" >>,
            << 100 >>, << 5 >>, << 105 >>, TRUE)

\* an invoice without invoice number
UnnumberedItem ==
    RawItem(STANDARD_INVOICE, NoCode, Undefined, << "1234", "?" >>,
            << 100 >>, << 5 >>, << 105 >>, TRUE)

RawItems ==
    { CleanItem,
      UnnumberedItem,
      \* a total that is not sales + tax, reported as invalid
      RawItem(STANDARD_INVOICE, "SUCCESS", << "AB", "12345678" >>, << "12345678" >>,
              << 100 >>, << 5 >>, << 200 >>, FALSE),
      \* a total less than the tax, no tax id
      RawItem(STANDARD_INVOICE, "SUCCESS", << "AB", "1" >>, Undefined,
              << 100 >>, << 1000 >>, << 105 >>, TRUE),
      \* a total within the tolerance, reported as invalid
      RawItem(STANDARD_INVOICE, "SUCCESS", << "AB", "2" >>, << "12345678" >>,
              << 100 >>, << 5 >>, << 106 >>, FALSE),
      \* an unreadable page
      RawItem(STANDARD_INVOICE, "BLURRY", NullStr, NullStr, NoNumber, NoNumber, NoNumber, TRUE),
      \* a delivery note
      RawItem(NOT_INVOICE_TYPE, "SUCCESS", NullStr, << "12345678" >>,
              NoNumber, NoNumber, << 105 >>, TRUE) }

\* the items that follow the first item of a response
FurtherItems == { CleanItem, UnnumberedItem }

\* a response: without text, or with the items its text parses to, which
\* are none, or any item followed by further items
Responses ==
    { [ text |-> FALSE, items |-> << >> ], [ text |-> TRUE, items |-> << >> ] }
    \cup { [ text |-> TRUE, items |-> << first >> \o rest ] :
              first \in RawItems, rest \in SeqsUpTo(FurtherItems, MaxItems - 1) }

\* what generateContent rejects with, or what a later step of the try block
\* throws (status 0: an exception without status)
Errors ==
    { [ status |-> 429, has429 |-> TRUE ], [ status |-> 500, has429 |-> FALSE ],
      [ status |-> 502, has429 |-> FALSE ], [ status |-> 503, has429 |-> FALSE ],
      [ status |-> 400, has429 |-> FALSE ], [ status |-> 0, has429 |-> FALSE ] }

(***************************************************************************)
(* The steps of an invocation                                              *)
(***************************************************************************)
NotExtract ==
    << invoices, erpData, uploads, batch, newProcessQueue, queue, inFlight, changesMap,
       completedCount, progress, seenInvoiceNumbers, recorded, started, auditList, review, post, second, sheet >>

InitExtract ==
    /\ invoices = << >>
    /\ erpData = << >>
    /\ uploads = 0
    /\ batch = "none"
    /\ newProcessQueue = << >>
    /\ queue = << >>
    /\ inFlight = EmptyBag
    /\ changesMap = EmptyMap
    /\ completedCount = 0
    /\ progress = IdleProgress
    /\ seenInvoiceNumbers = {}
    /\ recorded = EmptyMap
    /\ started = << >>
    /\ auditList = << >>
    /\ ax = NoCall
    /\ review = NoReview
    /\ post = NoPost
    /\ second = NoSecond
    /\ sheet = NoSheet

\* analyzeInvoice(base64, type, selectedModel, 0, knownSellers) up to the
\* await of generateContent
Invoke ==
    /\ ax.pc = "idle"
    /\ \E modelName \in ModelNames, static \in StaticSellerTables, known \in KnownSellerTables :
          ax' = [ax EXCEPT !.pc = "awaiting",
                           !.modelName = modelName,
                           !.sellers = MergeSellers(static, known),
                           !.stack = << Frame(modelName, 0) >>]
    /\ UNCHANGED NotExtract

\* generateContent resolves: the rest of the try block of the last
\* invocation, and of the invocations that await its return
Resolve ==
    /\ ax.pc = "awaiting"
    /\ \E response \in Responses :
          LET frame == Top(ax.stack)
              results == IF response.text
                         THEN Results(response.items, frame.modelName, ax.sellers)
                         ELSE << >>
              fast == IF IsHybrid(frame.modelName) THEN << response >> ELSE ax.fast
          IN  IF response.text /\ IsHybrid(frame.modelName) /\ NeedsEscalation(results)
              THEN ax' = [ax EXCEPT !.stack = Append(@, Frame(PRO, frame.retryCount)),
                                    !.fast = fast,
                                    !.escalations = @ + 1]
              ELSE ax' = [ax EXCEPT !.pc = "returned",
                                    !.stack = << >>,
                                    !.fast = fast,
                                    !.result = ReturnValue(ax.stack, results)]
    /\ UNCHANGED NotExtract

\* generateContent rejects, or the try block throws: the catch blocks
Reject ==
    /\ ax.pc = "awaiting"
    /\ \E err \in Errors :
          LET left == Catch(ax.stack, err)
          IN  IF left = << >>
              THEN ax' = [ax EXCEPT !.pc = "thrown", !.stack = << >>, !.error = << err >>]
              ELSE ax' = [ax EXCEPT !.pc = "sleeping", !.stack = left, !.error = << err >>,
                                    !.retries = @ + 1]
    /\ UNCHANGED NotExtract

\* the sleep ends: analyzeInvoice(..., modelName, retryCount + 1, ...) takes
\* the place of the invocation that slept
Retry ==
    /\ ax.pc = "sleeping"
    /\ LET frame == Top(ax.stack)
       IN  ax' = [ax EXCEPT !.pc = "awaiting",
                            !.stack = Append(Front(ax.stack),
                                             Frame(frame.modelName, frame.retryCount + 1)),
                            !.fast = IF IsHybrid(frame.modelName) THEN << >> ELSE @,
                            !.error = << >>]
    /\ UNCHANGED NotExtract

NextExtract == Invoke \/ Resolve \/ Reject \/ Retry

SpecExtract == InitExtract /\ [][NextExtract]_vars

C8_RetriesCapped == ax.retries <= 3

\* the failure is a rate limit or a server error
Transient(err) == err.status = 429 \/ err.has429 \/ (err.status >= 500 /\ err.status <= 599)

\* C9: a failed call is retried if and only if the failure is a rate limit
\* or a server error (any 5xx status) and the retry cap has not been
\* reached; any other failure is thrown at once
C9_RetryIffTransient ==
    /\ ax.pc = "sleeping" =>
          Transient(ax.error[1]) /\ Top(ax.stack).retryCount < 3
    /\ ax.pc = "thrown" =>
          ~Transient(ax.error[1]) \/ ax.retries >= 3

\* an entry fails validation
FailsValidation(r) ==
    r.error_code # "SUCCESS" \/ ~r.logic_is_valid \/ r.invoice_number = Undefined

\* the entry as the model gave it fails validation; no error_code stands for SUCCESS
RawFailsValidation(r) ==
    r.error_code \notin { "SUCCESS", NoCode } \/ ~r.logic_is_valid \/ r.invoice_number = Undefined

\* the call was re-issued to the accurate model and has not returned the fast results
Escalating ==
    /\ ax.escalations > 0
    /\ Len(ax.stack) = 2 \/ ax.pc \in { "sleeping", "thrown", "returned" }

\* what is returned are results of the accurate model, each with the
\* escalation log as the first line of its trace, and nowhere else in it
EscalatedReturn ==
    \A i \in DOMAIN ax.result :
        LET logs == ax.result[i].trace_logs
        IN  /\ logs[1] = EscalationLog
            /\ logs[3] = << "Model: " >> \o PRO
            /\ \A k \in DOMAIN logs : logs[k] = EscalationLog => k = 1

FastResults == Results(ax.fast[1].items, ax.modelName, ax.sellers)

C11_EscalatesAtMostOnce ==
    /\ ~IsHybrid(ax.modelName) => ax.escalations = 0
    /\ ax.escalations <= 1

(***************************************************************************)
(* The audit list of a project with one ledger record and the documents    *)
(* that were extracted for it                                              *)
(***************************************************************************)
LedgerTaxId == << "12345678" >>

\* an extracted invoice as the store holds it
AuditInvoice(type, number, taxId, total) ==
    InvoiceData(type, IF type = NOT_INVOICE_TYPE THEN "NOT_INVOICE" ELSE "SUCCESS", number,
                << "seller" >>, taxId, << 100 >>, << total - 100 >>, << total >>, TRUE, << >>,
                << << "Started processing" >> >>)

AuditInvoices ==
    { AuditInvoice(STANDARD_INVOICE, << "AB", "1" >>, LedgerTaxId, 105),
      AuditInvoice(STANDARD_INVOICE, << "AB", "2" >>, LedgerTaxId, 105),
      \* a number that contains another number
      AuditInvoice(STANDARD_INVOICE, << "AB", "1", "2" >>, LedgerTaxId, 105),
      \* a tax id with an illegible digit
      AuditInvoice(STANDARD_INVOICE, << "AB", "1" >>, << "12", "?", "45678" >>, 105),
      AuditInvoice(COMMERCIAL_INVOICE, << "AB", "1" >>, << "12", "?", "45678" >>, 105),
      \* another seller's tax id
      AuditInvoice(STANDARD_INVOICE, << "AB", "1" >>, << "87654321" >>, 105),
      AuditInvoice(COMMERCIAL_INVOICE, << "AB", "1" >>, << "87654321" >>, 105),
      \* a number the ledger does not list
      AuditInvoice(STANDARD_INVOICE, << "AB", "3" >>, LedgerTaxId, 105),
      \* a delivery note that carries a number
      AuditInvoice(NOT_INVOICE_TYPE, << "AB", "1" >>, LedgerTaxId, 105),
      \* no number, and a number that is only a hyphen
      AuditInvoice(STANDARD_INVOICE, NullStr, LedgerTaxId, 105),
      AuditInvoice(STANDARD_INVOICE, << "-" >>, LedgerTaxId, 105),
      \* another total, and no tax id
      AuditInvoice(STANDARD_INVOICE, << "AB", "1" >>, LedgerTaxId, 150),
      AuditInvoice(STANDARD_INVOICE, << "AB", "1" >>, << >>, 105) }

AuditVoucher == << "a" >>

\* the ledger record: its invoice numbers with the total they add up to,
\* with or without a seller tax id
AuditLedgerRecords ==
    { ERPRecord(AuditVoucher, x.numbers, taxId, x.total) :
        x \in { [ numbers |-> << >>, total |-> 0 ],
                [ numbers |-> << << "AB", "1" >> >>, total |-> 105 ],
                [ numbers |-> << << "-" >> >>, total |-> 105 ],
                [ numbers |-> << << "AB", "1" >>, << "AB", "2" >> >>, total |-> 210 ],
                [ numbers |-> << << "AB", "1" >>, << "AB", "1", "2" >> >>, total |-> 210 ] },
        taxId \in { LedgerTaxId, << >> } }

AuditDocumentIds == { << "a" >>, << "a", "-", "1" >>, << "c" >> }

\* a stored document with one extracted invoice, or failed with none
AuditDocuments ==
    { InvoiceEntry(id, id \o << ".", "pdf" >>, "SUCCESS", << inv >>, << >>)
        : id \in AuditDocumentIds, inv \in AuditInvoices }
    \cup { InvoiceEntry(id, id \o << ".", "pdf" >>, "ERROR", << >>, NothingRecognized)
        : id \in AuditDocumentIds }

InitAudit ==
    /\ erpData \in { << r >> : r \in AuditLedgerRecords }
    /\ invoices \in { d \in SeqsUpTo(AuditDocuments, MaxDocuments) : DistinctIds(d) }
    /\ uploads = 0
    /\ batch = "none"
    /\ newProcessQueue = << >>
    /\ queue = << >>
    /\ inFlight = EmptyBag
    /\ changesMap = EmptyMap
    /\ completedCount = 0
    /\ progress = IdleProgress
    /\ seenInvoiceNumbers = {}
    /\ recorded = EmptyMap
    /\ started = << >>
    /\ auditList = << >>
    /\ ax = NoCall
    /\ review = NoReview
    /\ post = NoPost
    /\ second = NoSecond
    /\ sheet = NoSheet

SpecAudit == InitAudit /\ [][NextReconcile]_vars

\* the deduplicated invoices of the documents of a row, and those matched to
\* its ledger record
RowInvoices(row) == Deduplicate(FlatData(row.files))

RowMatched(row) ==
    IF RowInvoices(row) = << >> THEN << >> ELSE MatchedOCRInvoices(row.erp[1], RowInvoices(row))

Unclear(inv) == includes(OrEmpty(inv.seller_tax_id), << "?" >>)

\* C12 as stated: a ledger row with a matched invoice whose seller_tax_id
\* contains '?', whatever the document type of that invoice, has tax_id_unclear
\* among its diffDetails and is a MISMATCH
C12_UnclearTaxIdAnyType ==
    \A r \in Range(LedgerRowsOf(auditList)) :
        (\E inv \in Range(RowMatched(r)) : Unclear(inv))
            => "tax_id_unclear" \in Range(r.diffDetails) /\ r.auditStatus = "MISMATCH"

\* C12, amended: a ledger row with a matched invoice that is not of the
\* commercial invoice type and whose seller_tax_id contains '?' has
\* tax_id_unclear among its diffDetails and is a MISMATCH
C12_UnclearTaxIdSurfaced ==
    \A r \in Range(LedgerRowsOf(auditList)) :
        (\E inv \in Range(RowMatched(r)) :
            Unclear(inv) /\ inv.document_type # COMMERCIAL_INVOICE)
            => "tax_id_unclear" \in Range(r.diffDetails) /\ r.auditStatus = "MISMATCH"

C12_Witness ==
    \E r \in Range(LedgerRowsOf(auditList)) :
        /\ \E inv \in Range(RowMatched(r)) :
              Unclear(inv) /\ inv.document_type = STANDARD_INVOICE
        /\ r.erp[1].seller_tax_id = << >>
        /\ r.diffDetails = << "tax_id_unclear" >>
        /\ r.auditStatus = "MISMATCH"

\* C13: a ledger row is MISSING_FILE exactly when no document matched the
\* record; otherwise it is MISMATCH exactly when diffDetails is non-empty and
\* MATCH exactly when diffDetails is empty
C13_StatusFromFilesAndDiff ==
    \A r \in Range(LedgerRowsOf(auditList)) :
        /\ r.auditStatus \in { "MISSING_FILE", "MISMATCH", "MATCH" }
        /\ r.auditStatus = "MISSING_FILE" <=> r.files = << >>
        /\ r.files # << >> =>
              /\ r.auditStatus = "MISMATCH" <=> r.diffDetails # << >>
              /\ r.auditStatus = "MATCH" <=> r.diffDetails = << >>

\* a mismatch for a reason other than the amounts
C13_Witness ==
    \E r \in Range(LedgerRowsOf(auditList)) :
        /\ r.files # << >>
        /\ r.auditStatus = "MISMATCH"
        /\ r.diffDetails = << "tax_id" >>

\* the documents whose id is the voucher id, or starts with it and '-' or '_'
DocumentsOf(voucher) ==
    SelectSeq(invoices, LAMBDA d :
        \/ d.id = voucher
        \/ startsWith(d.id, voucher \o << "-" >>)
        \/ startsWith(d.id, voucher \o << "_" >>))

Bijections(k) == { f \in [1..k -> 1..k] : \A i, j \in 1..k : f[i] = f[j] => i = j }

\* the documents of the record yield exactly as many invoices as the record
\* lists numbers, each matching a different number, the totals add up to the
\* ledger total within 1, and every seller tax id is legible and the ledger's
FullyDocumented(erp) ==
    LET found == FlatData(DocumentsOf(erp.voucher_id))
        k == Len(erp.invoice_numbers)
    IN  /\ Len(found) = k
        /\ \E f \in Bijections(k) : \A i \in 1..k :
              InvoiceNumberMatches(NormalizeInvoiceNumber(erp.invoice_numbers[f[i]]),
                                   NormalizeInvoiceNumber(OrEmpty(found[i].invoice_number)))
        /\ Abs(SumTotals(found) - erp.amount_total) <= 1
        /\ \A i \in 1..k : /\ ~Unclear(found[i])
                           /\ OrEmpty(found[i].seller_tax_id) = OrEmpty(erp.seller_tax_id)

\* C16 as stated: a fully documented ledger record has a MATCH row
C16_FullyDocumentedMatches ==
    \A r \in Range(LedgerRowsOf(auditList)) :
        FullyDocumented(r.erp[1]) => r.auditStatus = "MATCH"

\* C16, amended: a ledger record that lists at least one invoice number and is
\* fully documented by invoices none of which is classified as not an invoice
\* and no two of which have the same number and total, has a MATCH row
C16_FullyDocumentedValidMatches ==
    \A r \in Range(LedgerRowsOf(auditList)) :
        LET found == FlatData(DocumentsOf(r.erp[1].voucher_id))
        IN  ( /\ FullyDocumented(r.erp[1])
              /\ Len(r.erp[1].invoice_numbers) >= 1
              /\ \A i \in DOMAIN found :
                    /\ found[i].document_type # NOT_INVOICE_TYPE
                    /\ found[i].error_code # "NOT_INVOICE"
              /\ \A i, j \in DOMAIN found :
                    ( /\ found[i].invoice_number = found[j].invoice_number
                      /\ found[i].amount_total = found[j].amount_total ) => i = j )
            => r.auditStatus = "MATCH"

\* two numbers, two documents with one invoice each
C16_Witness ==
    \E r \in Range(LedgerRowsOf(auditList)) :
        /\ FullyDocumented(r.erp[1])
        /\ Len(r.erp[1].invoice_numbers) = 2
        /\ Len(r.files) = 2
        /\ \A i \in DOMAIN r.files : r.files[i].data[1].document_type = STANDARD_INVOICE
        /\ r.files[1].data[1].invoice_number # r.files[2].data[1].invoice_number
        /\ r.auditStatus = "MATCH"

\* the normalized invoice numbers of the project: the ledger's and the extracted
NormalizedNumbers ==
    UNION { { NormalizeInvoiceNumber(n) : n \in Range(erpData[i].invoice_numbers) }
              : i \in DOMAIN erpData }
    \cup { NormalizeInvoiceNumber(OrEmpty(inv.invoice_number))
              : inv \in Range(FlatData(invoices)) }

\* C17: matching ledger token A against extracted number B gives the same
\* result as matching ledger token B against extracted number A, for any two
\* normalized invoice numbers A and B
C17_MatchSymmetric ==
    \A A, B \in NormalizedNumbers : InvoiceNumberMatches(A, B) = InvoiceNumberMatches(B, A)

\* C20 as stated: a ledger row with matched documents but no matched invoice
\* has no_match_found among its diffDetails and is a MISMATCH
C20_NoMatchFoundWhenUnmatched ==
    \A r \in Range(LedgerRowsOf(auditList)) :
        (r.files # << >> /\ RowMatched(r) = << >>)
            => "no_match_found" \in Range(r.diffDetails) /\ r.auditStatus = "MISMATCH"

\* C20, amended: a ledger row whose matched documents hold no extracted
\* invoice at all has no_match_found as its only reason and is a MISMATCH
C20_NoMatchFoundWhenNoInvoices ==
    \A r \in Range(LedgerRowsOf(auditList)) :
        (r.files # << >> /\ FlatData(r.files) = << >>)
            => r.diffDetails = << "no_match_found" >> /\ r.auditStatus = "MISMATCH"

C20_Witness ==
    \E r \in Range(LedgerRowsOf(auditList)) :
        /\ Len(r.files) = 2
        /\ FlatData(r.files) = << >>
        /\ r.diffDetails = << "no_match_found" >>
        /\ r.auditStatus = "MISMATCH"

(***************************************************************************)
(* Properties of re-uploads and of the pool                                *)
(***************************************************************************)
\* the id handleFiles gives a file when the stem of its name is looked up in
\* the documents of the project
UploadedId(currentInvoices, file) ==
    LET filename == ProcessedName(file)
        id == Stem(filename)
    IN  IF MapHas(currentInvoices, id) /\ MapGet(currentInvoices, id).name # filename
        THEN id \o << "-" >> \o Ext(filename)
        ELSE id

\* the file lists whose upload the step from this state to the next can be
UploadedFiles ==
    { files \in SeqsUpTo(Files, IF uploads = 0 THEN MaxFiles ELSE MaxLaterFiles) :
        /\ files # << >>
        /\ LET acc == AddFiles(invoices, [ next |-> invoices, q |-> << >> ], files)
           IN  invoices' = acc.next /\ newProcessQueue' = acc.q }

IsUpload == uploads' = uploads + 1

\* C14: an upload of a file whose id is the id of a document leaves a SUCCESS
\* document with its status and data, not enqueued (the file and its preview
\* alone are replaced), and turns any other document into a PENDING one
\* without data that is enqueued
C14_ReuploadStep ==
    (IsUpload /\ invoices # << >>) =>
        \A files \in UploadedFiles : \A i \in DOMAIN invoices :
            LET e == invoices[i]
            IN  (\E k \in DOMAIN files : UploadedId(invoices, files[k]) = e.id) =>
                    IF e.status = "SUCCESS"
                    THEN /\ invoices'[i] = e
                         /\ \A j \in DOMAIN newProcessQueue' : newProcessQueue'[j].id # e.id
                    ELSE /\ invoices'[i] = InvoiceEntry(e.id, e.name, "PENDING", << >>, << >>)
                         /\ \E j \in DOMAIN newProcessQueue' : newProcessQueue'[j].id = e.id

C14_ReuploadRefreshesOrResets == [][C14_ReuploadStep]_vars

\* the second upload carried nothing but documents that had succeeded, beside
\* a failed document that it did not carry
C14_Witness ==
    /\ uploads = 2
    /\ batch = "none"
    /\ newProcessQueue = << >>
    /\ \E i \in DOMAIN invoices : invoices[i].status = "SUCCESS" /\ invoices[i].data # << >>
    /\ \E i \in DOMAIN invoices : invoices[i].status = "ERROR"

InWork(q, bag, id) ==
    \/ \E j \in DOMAIN q : q[j].id = id
    \/ \E item \in BagToSet(bag) : item.id = id

\* C15: a document in ERROR status changes, or comes to be queued, only in the
\* upload of a file with its id, which resets and enqueues it; in the user's
\* discarding of its extraction, which enqueues nothing; or when the running
\* batch, whose upload carried a file with its id, publishes a result for it.
\* No document is handed to a worker more often than uploads enqueued it.
C15_ErrorStep ==
    /\ SeqToBag(started') (+) SeqToBag(Ids(queue')) = SeqToBag(Ids(newProcessQueue'))
    /\ \A i \in DOMAIN invoices :
        LET e == invoices[i]
            touched == \/ invoices'[i] # e
                       \/ InWork(queue', inFlight', e.id) /\ ~InWork(queue, inFlight, e.id)
        IN  (e.status = "ERROR" /\ touched) =>
                \/ /\ IsUpload
                   /\ \E j \in DOMAIN newProcessQueue' : newProcessQueue'[j].id = e.id
                   /\ invoices'[i] = InvoiceEntry(e.id, e.name, "PENDING", << >>, << >>)
                \/ /\ invoices' = HandleDeleteOCR(invoices, e.id)
                   /\ UNCHANGED << uploads, newProcessQueue, queue, inFlight, changesMap >>
                \/ /\ batch = "running"
                   /\ UNCHANGED << uploads, newProcessQueue, queue, inFlight >>
                   /\ \E j \in DOMAIN newProcessQueue : newProcessQueue[j].id = e.id
                   /\ e.id \in DOMAIN changesMap
                   /\ invoices'[i] = Merge(e, changesMap[e.id])

C19_FinishStep ==
    (completedCount' = completedCount + 1 /\ queue # << >>) =>
        /\ queue' = Tail(queue)
        /\ BagCardinality(inFlight') = BagCardinality(inFlight)
        /\ BagIn(Head(queue), inFlight')
        /\ started' = Append(started, Head(queue).id)

C19_WorkerTakesNext == [][C19_FinishStep]_vars

\* the third document was started while a document of the initial batch was
\* still in flight
C19_Witness ==
    /\ Len(started) = CONCURRENCY_LIMIT + 1
    /\ completedCount = 1
    /\ BagCardinality(inFlight) = CONCURRENCY_LIMIT
    /\ \E item \in BagToSet(inFlight) : item.id = started[1] \/ item.id = started[2]

(***************************************************************************)
(* ErrorReviewPage and handleSave: the review of extracted invoices        *)
(***************************************************************************)
\* handleSave(id, updatedData): prev.map(inv => inv.id === id ? ... : inv)
HandleSave(prev, id, updatedData) ==
    [i \in DOMAIN prev |->
        IF prev[i].id = id
        THEN [prev[i] EXCEPT !.data = IF Len(@) > 0 THEN [@ EXCEPT ![1] = updatedData]
                                      ELSE Append(@, updatedData)]
        ELSE prev[i]]

\* invoices per document
MaxInvoices == 2

ReviewDocumentIds == { << "a" >>, << "a", "-", "1" >> }

ReviewInvoices == { Extracted(<< "AB", "1" >>), Extracted(<< "AB", "2" >>) }

\* a stored document with its extracted invoices, failed when it has none
ReviewDocuments ==
    { InvoiceEntry(id, id \o << ".", "pdf" >>, IF data = << >> THEN "ERROR" ELSE "SUCCESS", data,
                   IF data = << >> THEN NothingRecognized ELSE << >>)
        : id \in ReviewDocumentIds, data \in SeqsUpTo(ReviewInvoices, MaxInvoices) }

\* what the user types into the form: a number, or a total
FormEdits(formData) ==
    { [formData EXCEPT !.invoice_number = << "AB", "9" >>],
      [formData EXCEPT !.amount_total = << 110 >>] }

InitReview ==
    /\ invoices \in { d \in SeqsUpTo(ReviewDocuments, MaxDocuments) : d # << >> /\ DistinctIds(d) }
    /\ erpData = << >>
    /\ uploads = 0
    /\ batch = "none"
    /\ newProcessQueue = << >>
    /\ queue = << >>
    /\ inFlight = EmptyBag
    /\ changesMap = EmptyMap
    /\ completedCount = 0
    /\ progress = IdleProgress
    /\ seenInvoiceNumbers = {}
    /\ recorded = EmptyMap
    /\ started = << >>
    /\ auditList = << >>
    /\ ax = NoCall
    /\ review = NoReview
    /\ post = NoPost
    /\ second = NoSecond
    /\ sheet = NoSheet

NotReview ==
    << erpData, uploads, batch, newProcessQueue, queue, inFlight, changesMap, completedCount,
       progress, seenInvoiceNumbers, recorded, started, auditList, ax,
       post, second, sheet >>

\* the user selects an item of the error list: the form is mounted with
\* data[invoiceIndex] of the entry.  Every invoice of every document can be
\* on the list (buyer_tax_id, which puts it there, is not part of the model).
SelectItem ==
    /\ \E i \in DOMAIN invoices : \E idx \in 0..(Len(invoices[i].data) - 1) :
          review' = [ pc |-> "editing", entryId |-> invoices[i].id, invoiceIndex |-> idx,
                      formData |-> << invoices[i].data[idx + 1] >> ]
    /\ UNCHANGED invoices
    /\ UNCHANGED NotReview

\* setFormData
EditForm ==
    /\ review.pc = "editing"
    /\ \E edited \in FormEdits(review.formData[1]) :
          review' = [review EXCEPT !.formData = << edited >>]
    /\ UNCHANGED invoices
    /\ UNCHANGED NotReview

\* the save button of the form: onUpdate(formData), that is
\* handleSave(currentEntry.id, formData), then onNext; the item and the form
\* data that were saved stay on record until the next item is selected
SaveForm ==
    /\ review.pc = "editing"
    /\ invoices' = HandleSave(invoices, review.entryId, review.formData[1])
    /\ review' = [review EXCEPT !.pc = "saved"]
    /\ UNCHANGED NotReview

NextReview == SelectItem \/ EditForm \/ SaveForm

SpecReview == InitReview /\ [][NextReview]_vars

\* the store with the invoice at index idx (from 0) of document id replaced
ReplacedAt(prev, id, idx, updatedData) ==
    [i \in DOMAIN prev |->
        IF prev[i].id = id THEN [prev[i] EXCEPT !.data[idx + 1] = updatedData] ELSE prev[i]]

\* C18: saving the edit of the invoice at index i of a document replaces the
\* entry at index i of its data with the edited entry and leaves every other
\* entry of the document and every other document as it is
C18_SaveStep ==
    (review.pc = "editing" /\ review'.pc = "saved") =>
        invoices' = ReplacedAt(invoices, review.entryId, review.invoiceIndex, review.formData[1])

C18_SaveReplacesAtIndex == [][C18_SaveStep]_vars

(***************************************************************************)
(* Post-processing of one response: the items of the response, the seller  *)
(* tables, and what analyzeInvoice makes of them                           *)
(***************************************************************************)
\* the items of a response
PostItems ==
    { CleanItem,
      UnnumberedItem,
      \* a total less than the tax, no tax id
      RawItem(STANDARD_INVOICE, "SUCCESS", << "AB", "1" >>, Undefined,
              << 100 >>, << 1000 >>, << 105 >>, TRUE),
      \* a total of 0
      RawItem(STANDARD_INVOICE, "SUCCESS", << "AB", "2" >>, << "12345678" >>,
              << 100 >>, << 5 >>, << 0 >>, FALSE),
      \* a total of another invoice, close to 105 and far from it
      RawItem(STANDARD_INVOICE, "SUCCESS", << "AB", "3" >>, << "12345678" >>,
              << 103 >>, << 5 >>, << 108 >>, TRUE),
      RawItem(STANDARD_INVOICE, "SUCCESS", << "AB", "4" >>, << "12345678" >>,
              << 200 >>, << 10 >>, << 210 >>, TRUE),
      \* a page without number and with a total of its own
      RawItem(STANDARD_INVOICE, "SUCCESS", NullStr, NullStr,
              << 200 >>, << 10 >>, << 210 >>, TRUE),
      \* a delivery note
      RawItem(NOT_INVOICE_TYPE, "SUCCESS", NullStr, << "12345678" >>,
              << 100 >>, << 5 >>, << 105 >>, TRUE) }

\* seller_db.json is read at run time: no entry, a shorter name of the
\* seller, or the very name the session knows
PostStaticTables ==
    { << >>,
      << [ name |-> << "ACME" >>, id |-> << "11111111" >> ] >>,
      << [ name |-> SellerName, id |-> << "11111111" >> ] >> }

InitPost ==
    /\ post \in { [ pc |-> "parsed", modelName |-> modelName, static |-> static,
                    known |-> known, items |-> items,
                    processedResults |-> << >>, results |-> << >> ] :
                  modelName \in ModelNames, static \in PostStaticTables,
                  known \in KnownSellerTables, items \in SeqsUpTo(PostItems, MaxItems) }
    /\ invoices = << >>
    /\ erpData = << >>
    /\ uploads = 0
    /\ batch = "none"
    /\ newProcessQueue = << >>
    /\ queue = << >>
    /\ inFlight = EmptyBag
    /\ changesMap = EmptyMap
    /\ completedCount = 0
    /\ progress = IdleProgress
    /\ seenInvoiceNumbers = {}
    /\ recorded = EmptyMap
    /\ started = << >>
    /\ auditList = << >>
    /\ ax = NoCall
    /\ review = NoReview
    /\ second = NoSecond
    /\ sheet = NoSheet

\* the response is parsed: the map over the items, then the ghost filter
ProcessResponse ==
    /\ post.pc = "parsed"
    /\ LET sellers == MergeSellers(post.static, post.known)
           processedResults ==
               [i \in DOMAIN post.items |-> PostProcess(post.items[i], post.modelName, sellers)]
       IN  post' = [post EXCEPT !.pc = "filtered",
                                !.processedResults = processedResults,
                                !.results = DropGhosts(processedResults)]
    /\ UNCHANGED << invoices, erpData, uploads, batch, newProcessQueue, queue, inFlight,
                    changesMap, completedCount, progress, seenInvoiceNumbers, recorded,
                    started, auditList, ax, review, second, sheet >>

NextPost == ProcessResponse

SpecPost == InitPost /\ [][NextPost]_vars

Logged(item, line) == \E i \in DOMAIN item.trace_logs : item.trace_logs[i] = line

SwapLine == << "Fixed: Swapped Total and Tax" >>

CorrectionLine == << "Rule 3: Amount Mismatch - auto-correcting total" >>

\* the processed item holds the total and the tax of the raw item swapped,
\* the total recomputed from the swapped tax where it has to be
SwappedFirst(raw, item) ==
    LET sales == OrZero(raw.amount_sales)
        tax == OrZero(raw.amount_total)
        total == OrZero(raw.amount_tax)
    IN  /\ Logged(item, SwapLine)
        /\ item.amount_tax = << tax >>
        /\ IF Abs(total - (sales + tax)) > 1
           THEN item.amount_total = << sales + tax >> /\ Logged(item, CorrectionLine)
           ELSE item.amount_total = << total >>

\* the example: sales 100, tax 1000, total 105
SwapExample(raw) ==
    raw.amount_sales = << 100 >> /\ raw.amount_tax = << 1000 >> /\ raw.amount_total = << 105 >>

SwapExampleResult(item) ==
    /\ item.amount_tax = << 105 >>
    /\ item.amount_total = << 205 >>
    /\ item.logic_is_valid
    /\ Logged(item, SwapLine)
    /\ Logged(item, CorrectionLine)

AwaitsConversion(files) == \E i \in DOMAIN files : isTif(files[i].name)

\* the later call from the end of its loop over the files to the first await
\* of its pool: the store is overwritten with the list computed from the
\* snapshot currentInvoices
CommitSecond(currentInvoices, files) ==
    LET acc == AddFiles(currentInvoices, [ next |-> currentInvoices, q |-> << >> ], files)
        n == InitialBatch(acc.q)
        first == SubSeq(acc.q, 1, n)
        marked == MarkProcessing(EmptyMap, first)
    IN  /\ invoices' = acc.next
        /\ uploads' = uploads + 1
        /\ IF acc.q = << >>
           THEN /\ second' = [NoSecond EXCEPT !.pc = "returned", !.files = files,
                                              !.currentInvoices = currentInvoices]
                /\ UNCHANGED progress
           ELSE /\ second' = [ pc |-> "running", files |-> files,
                               currentInvoices |-> currentInvoices,
                               newProcessQueue |-> acc.q,
                               queue |-> SubSeq(acc.q, n + 1, Len(acc.q)),
                               inFlight |-> SeqToBag(first),
                               changesMap |-> marked,
                               seenInvoiceNumbers |-> SeenInvoiceNumbers(currentInvoices),
                               completedCount |-> 0,
                               recorded |-> marked ]
                /\ progress' = [ current |-> 0, total |-> Len(acc.q), status |-> "PROCESSING" ]

\* the most files of the upload that an overlapping upload follows
MaxOverlapFiles == 2

\* the first upload of the session
FirstUpload ==
    /\ uploads = 0
    /\ batch # "running"
    /\ \E files \in SeqsUpTo(Files, MaxOverlapFiles) :
          /\ files # << >>
          /\ HandleFiles(files)
    /\ UNCHANGED << erpData, auditList, ax, review, post, second, sheet >>

\* the user picks files while the batch of the first upload is running:
\* handleFiles reads project.invoices and, when a file is a TIF, waits for its
\* conversion; otherwise it goes on to the overwrite without a pause
SecondBegin ==
    /\ batch = "running"
    /\ second.pc = "idle"
    /\ uploads < MaxUploads
    /\ \E files \in SeqsUpTo(Files, MaxLaterFiles) :
          /\ files # << >>
          /\ IF AwaitsConversion(files)
             THEN /\ second' = [NoSecond EXCEPT !.pc = "converting", !.files = files,
                                                !.currentInvoices = invoices]
                  /\ UNCHANGED << invoices, uploads, progress >>
             ELSE CommitSecond(invoices, files)
    /\ UNCHANGED << erpData, batch, newProcessQueue, queue, inFlight, changesMap, completedCount,
                    seenInvoiceNumbers, recorded, started, auditList, ax, review, post, sheet >>

\* the awaited conversions have settled
SecondResume ==
    /\ second.pc = "converting"
    /\ CommitSecond(second.currentInvoices, second.files)
    /\ UNCHANGED << erpData, batch, newProcessQueue, queue, inFlight, changesMap, completedCount,
                    seenInvoiceNumbers, recorded, started, auditList, ax, review, post, sheet >>

\* processItem(item) and processNext of the later call
SecondProcessItem(item, outcome) ==
    LET done == ProcessItemResult(outcome, second.seenInvoiceNumbers)
        buffered == MapSet(second.changesMap, item.id, done.change)
        logged == MapSet(second.recorded, item.id, done.change)
        processing == Change("PROCESSING", {}, << >>, << >>)
        left == second.inFlight (-) SetToBag({ item })
    IN  /\ progress' = [ current |-> second.completedCount + 1,
                         total |-> Len(second.newProcessQueue), status |-> "PROCESSING" ]
        /\ IF Len(second.queue) > 0
           THEN second' = [second EXCEPT
                             !.seenInvoiceNumbers = done.seen,
                             !.completedCount = @ + 1,
                             !.inFlight = left (+) SetToBag({ Head(second.queue) }),
                             !.queue = Tail(@),
                             !.changesMap = MapSet(buffered, Head(second.queue).id, processing),
                             !.recorded = MapSet(logged, Head(second.queue).id, processing)]
           ELSE second' = [second EXCEPT
                             !.seenInvoiceNumbers = done.seen,
                             !.completedCount = @ + 1,
                             !.inFlight = left,
                             !.changesMap = buffered,
                             !.recorded = logged]

SecondWorkerFinish ==
    /\ second.pc = "running"
    /\ \E item \in BagToSet(second.inFlight) : \E outcome \in Outcomes :
          SecondProcessItem(item, outcome)
    /\ UNCHANGED << invoices, erpData, uploads, batch, newProcessQueue, queue, inFlight,
                    changesMap, completedCount, seenInvoiceNumbers, recorded, started,
                    auditList, ax, review, post, sheet >>

\* the interval of the later call fires
SecondFlushTick ==
    /\ second.pc = "running"
    /\ second.inFlight # EmptyBag
    /\ DOMAIN second.changesMap # {}
    /\ LET flushed == FlushInterval(invoices, second.changesMap)
       IN  /\ invoices' = flushed.invoices
           /\ second' = [second EXCEPT !.changesMap = flushed.changesMap]
    /\ UNCHANGED << erpData, uploads, batch, newProcessQueue, queue, inFlight, changesMap,
                    completedCount, progress, seenInvoiceNumbers, recorded, started,
                    auditList, ax, review, post, sheet >>

\* the later call after its pool has drained
SecondReturn ==
    /\ second.pc = "running"
    /\ second.inFlight = EmptyBag
    /\ invoices' = FinalFlush(invoices, second.changesMap)
    /\ second' = [second EXCEPT !.pc = "returned"]
    /\ progress' = [ current |-> second.completedCount,
                     total |-> Len(second.newProcessQueue), status |-> "COMPLETED" ]
    /\ UNCHANGED << erpData, uploads, batch, newProcessQueue, queue, inFlight, changesMap,
                    completedCount, seenInvoiceNumbers, recorded, started, auditList, ax,
                    review, post, sheet >>

NextOverlap ==
    \/ FirstUpload
    \/ WorkerFinish
    \/ FlushTick
    \/ BatchReturn
    \/ SecondBegin
    \/ SecondResume
    \/ SecondWorkerFinish
    \/ SecondFlushTick
    \/ SecondReturn

SpecOverlap == Init /\ [][NextOverlap]_vars

\* the extracted invoices the store holds: document index and index in its data
StoredInvoices ==
    { p \in (DOMAIN invoices) \X (1 .. MaxFiles + MaxLaterFiles) : p[2] \in DOMAIN invoices[p[1]].data }

StoredInvoice(p) == invoices[p[1]].data[p[2]]

StoredNumber(p) == NormalizeInvoiceNumber(OrEmpty(StoredInvoice(p).invoice_number))

Warned(p) == Logged(StoredInvoice(p), DuplicateWarning)

NumbersOf(results) == [i \in DOMAIN results |-> results[i].invoice_number]

\* C22: among the extracted invoices the session has recorded in the store,
\* those that share a normalized non-empty invoice number have exactly one
\* member without the duplicate warning line, and a batch keeps every result
\* of an extraction whatever numbers it has seen
C22_OneUnwarnedPerNumber ==
    /\ \A p \in StoredInvoices :
          StoredNumber(p) # << >> =>
             Cardinality({ q \in StoredInvoices :
                             StoredNumber(q) = StoredNumber(p) /\ ~Warned(q) }) = 1
    /\ \A outcome \in Outcomes : \A seen \in { seenInvoiceNumbers, second.seenInvoiceNumbers } :
          outcome.kind = "results" /\ Len(outcome.results) > 0 =>
             NumbersOf(ProcessItemResult(outcome, seen).change.data) = NumbersOf(outcome.results)

\* the tax id of a matched invoice that is compared with the ledger's
ComparedTaxIds(r) ==
    { OrEmpty(inv.seller_tax_id) :
        inv \in { x \in Range(RowMatched(r)) : x.document_type # COMMERCIAL_INVOICE } } \ { << >> }

\* C23 as stated: diffDetails of a ledger row holds tax_id exactly when some
\* matched invoice that is not a commercial invoice has a non-empty
\* seller_tax_id different from the seller_tax_id of the ledger record
C23_TaxIdIffDiffers ==
    \A r \in Range(LedgerRowsOf(auditList)) :
        "tax_id" \in Range(r.diffDetails)
            <=> \E t \in ComparedTaxIds(r) : t # OrEmpty(r.erp[1].seller_tax_id)

\* C23, amended: diffDetails of a ledger row holds tax_id exactly when the
\* ledger record has a seller_tax_id and some matched invoice that is not a
\* commercial invoice has a non-empty seller_tax_id different from it
C23_TaxIdIffBothPresentAndDiffer ==
    \A r \in Range(LedgerRowsOf(auditList)) :
        "tax_id" \in Range(r.diffDetails)
            <=> /\ OrEmpty(r.erp[1].seller_tax_id) # << >>
                /\ \E t \in ComparedTaxIds(r) : t # OrEmpty(r.erp[1].seller_tax_id)

\* a standard invoice of another seller is matched to a record with a tax id
C23_Witness ==
    \E r \in Range(LedgerRowsOf(auditList)) :
        /\ r.erp[1].seller_tax_id = LedgerTaxId
        /\ << "87654321" >> \in ComparedTaxIds(r)
        /\ "tax_id" \in Range(r.diffDetails)
        /\ r.auditStatus = "MISMATCH"

\* the example of an illegible digit: 12?45678 read where the ledger has 12345678
AgreesButUnclear(ocrTaxId, erpTaxId) ==
    ocrTaxId = << "12", "?", "45678" >> /\ erpTaxId = << "12345678" >>

\* the row differs from its record in nothing but an illegible digit of a tax id
OnlyUnclear(r) ==
    LET erpTaxId == OrEmpty(r.erp[1].seller_tax_id)
    IN  /\ \E inv \in Range(RowMatched(r)) :
              /\ inv.document_type # COMMERCIAL_INVOICE
              /\ AgreesButUnclear(OrEmpty(inv.seller_tax_id), erpTaxId)
        /\ \A inv \in Range(RowMatched(r)) :
              /\ inv.document_type # COMMERCIAL_INVOICE
              /\ \/ OrEmpty(inv.seller_tax_id) = erpTaxId
                 \/ AgreesButUnclear(OrEmpty(inv.seller_tax_id), erpTaxId)
        /\ Abs(SumTotals(RowMatched(r)) - r.erp[1].amount_total) <= AmountTolerance
        /\ Len(r.erp[1].invoice_numbers) = Len(RowMatched(r))

\* C24: a ledger row whose matched invoice has a seller_tax_id with '?' that
\* agrees with the ledger's in every other digit, and that differs in nothing
\* else, is a MISMATCH whose diffDetails are tax_id_unclear alone
C24_OnlyUnclearReason ==
    \A r \in Range(LedgerRowsOf(auditList)) :
        OnlyUnclear(r) => r.auditStatus = "MISMATCH" /\ r.diffDetails = << "tax_id_unclear" >>

\* entry i of the processed response has no invoice number while another entry
\* has one and a total within the tolerance
NumberlessTwin(processed, i) ==
    /\ Falsy(processed[i].invoice_number)
    /\ \E j \in DOMAIN processed :
          /\ j # i
          /\ ~Falsy(processed[j].invoice_number)
          /\ Abs(OrZero(processed[j].amount_total) - OrZero(processed[i].amount_total))
                <= GhostTolerance

\* the entries of the processed response that are not to be dropped, in order
KeptEntries(processed, dropped) ==
    SelectSeq([i \in DOMAIN processed |-> i], LAMBDA i : i \notin dropped)

\* results holds the kept entries, in their order (the error code aside)
ReturnsKept(processed, results, kept) ==
    /\ Len(results) = Len(kept)
    /\ \A k \in DOMAIN kept :
          [results[k] EXCEPT !.error_code = "SUCCESS"]
              = [processed[kept[k]] EXCEPT !.error_code = "SUCCESS"]

\* C25 as stated: an entry is dropped exactly when it has no invoice number
\* and another entry with a number has a total within 5 of its own, and the
\* other entries are returned in the order of the response
C25_DroppedIffNumberlessTwin ==
    post.pc = "filtered" =>
        ReturnsKept(post.processedResults, post.results,
                    KeptEntries(post.processedResults,
                                { i \in DOMAIN post.processedResults :
                                    NumberlessTwin(post.processedResults, i) }))

\* C25, amended: an entry is dropped exactly when it is not of the
\* not-an-invoice type, has no invoice number and another entry with a number
\* has a total within 5 of its own; the other entries are returned in order
C25_DroppedIffInvoiceNumberlessTwin ==
    post.pc = "filtered" =>
        ReturnsKept(post.processedResults, post.results,
                    KeptEntries(post.processedResults,
                                { i \in DOMAIN post.processedResults :
                                    /\ post.processedResults[i].document_type # NOT_INVOICE_TYPE
                                    /\ NumberlessTwin(post.processedResults, i) }))

\* a numberless entry is dropped and the numbered entry after it is returned
C25_Witness ==
    /\ post.pc = "filtered"
    /\ Len(post.processedResults) = 2
    /\ NumberlessTwin(post.processedResults, 1)
    /\ post.processedResults[1].document_type = STANDARD_INVOICE
    /\ post.results = << post.processedResults[2] >>

\* the item is one that seller enrichment looks up
NeedsSeller(raw) ==
    /\ ~Falsy(raw.seller_name)
    /\ Falsy(raw.seller_tax_id) \/ includes(raw.seller_tax_id, << "?" >>)

\* the ids the session-derived table has for names the seller name includes
KnownIds(raw, known) ==
    { known[k].id : k \in { j \in DOMAIN known : includes(raw.seller_name, known[j].name) } }

\* C27: an item whose tax id is looked up and whose seller name includes a
\* name of the session-derived table gets the tax id that table has for it,
\* whatever the static table holds
C27_SessionSellerWins ==
    post.pc = "filtered" =>
        \A i \in DOMAIN post.items :
            NeedsSeller(post.items[i]) /\ KnownIds(post.items[i], post.known) # {}
                => post.processedResults[i].seller_tax_id \in KnownIds(post.items[i], post.known)

(***************************************************************************)
(* handleERPUpload: the header row of the spreadsheet and the ledger       *)
(* records read from its rows.  A row is the sequence of its cells, cell   *)
(* idx of the code being element idx + 1; a cell is a string.             *)
(***************************************************************************)
\* String(c).trim()
RECURSIVE trim(_)
trim(str) ==
    IF str = << >> THEN str
    ELSE IF Head(str) = " " THEN trim(Tail(str))
    ELSE IF str[Len(str)] = " " THEN trim(SubSeq(str, 1, Len(str) - 1))
    ELSE str

\* keyMap: the keywords of a field that are written in Latin letters, in the
\* order of the list
keyMap ==
    [ voucher_id |-> << "Voucher", "NO." >>,
      invoice_number |-> << "Invoice No" >>,
      seller_tax_id |-> << "Tax ID" >>,
      amount_total |-> << "Total Amount" >> ]

\* fixedIndices
fixedIndices == [ voucher_id |-> 1, invoice_number |-> 10, seller_tax_id |-> 11, amount_total |-> 15 ]

\* keywords.findIndex(k => col.includes(k)), from 0; -1 when none is found
FindKeyword(keywords, col) ==
    IF \E k \in DOMAIN keywords : includes(col, << keywords[k] >>)
    THEN (CHOOSE k \in DOMAIN keywords :
             /\ includes(col, << keywords[k] >>)
             /\ \A j \in 1..(k - 1) : ~includes(col, << keywords[j] >>)) - 1
    ELSE -1

\* rowStr.some(s => keyMap.voucher_id.some(k => s.includes(k)))
IsHeaderRow(row) ==
    \E idx \in DOMAIN row : FindKeyword(keyMap.voucher_id, trim(row[idx])) # -1

\* headerMap of a header row: for each field the column with the keyword of
\* the lowest index, the first such column; -1 for a field without column
HeaderMap(row) ==
    [ key \in DOMAIN keyMap |->
        LET Quality(idx) == FindKeyword(keyMap[key], trim(row[idx]))
            cols == { idx \in DOMAIN row : Quality(idx) # -1 }
        IN  IF cols = {} THEN -1
            ELSE (CHOOSE idx \in cols :
                     \A other \in cols :
                        \/ Quality(idx) < Quality(other)
                        \/ Quality(idx) = Quality(other) /\ idx <= other) - 1 ]

\* getVal(idx); undefined is the empty cell
getVal(row, idx) == IF idx >= 0 /\ idx < Len(row) THEN row[idx + 1] ELSE << >>

\* parseFloat of the numerals that the rows hold; NaN for anything else
Numerals == [ n \in { "105", "210" } |-> IF n = "105" THEN 105 ELSE 210 ]

\* parseAmount of a string: parseFloat(val.replace(/,/g, '').trim()) || 0
parseAmount(val) ==
    LET str == trim(StripTokens(val, { "," }))
    IN  IF Len(str) = 1 /\ str[1] \in DOMAIN Numerals THEN Numerals[str[1]] ELSE 0

Separators == { " ", ",", ";", "/" }

\* invStr.split(/[\s,;/]+/).filter(Boolean)
RECURSIVE SplitNumbers(_, _)
SplitNumbers(str, word) ==
    IF str = << >> THEN (IF word = << >> THEN << >> ELSE << word >>)
    ELSE IF Head(str) \in Separators
         THEN (IF word = << >> THEN << >> ELSE << word >>) \o SplitNumbers(Tail(str), << >>)
         ELSE SplitNumbers(Tail(str), Append(word, Head(str)))

\* the loop over the rows from row i on (rows counted from 1), with headerMap
\* as it stands (<< >> for null); each record pushed is listed with its row
\* and with whether headerMap gave its columns
RECURSIVE ParseRows(_, _, _)
ParseRows(rows, i, headerMap) ==
    IF i > Len(rows) THEN << >>
    ELSE LET row == rows[i]
             getIdx(key) == IF headerMap # << >> THEN headerMap[key] ELSE fixedIndices[key]
             voucherIdRaw == getVal(row, getIdx("voucher_id"))
             vId == trim(voucherIdRaw)
         IN  IF headerMap = << >> /\ IsHeaderRow(row)
             THEN ParseRows(rows, i + 1, HeaderMap(row))
             ELSE IF voucherIdRaw # << >> /\ vId # << >>
                     /\ FindKeyword(keyMap.voucher_id, vId) = -1
             THEN << [ row |-> i, byHeader |-> headerMap # << >>,
                       record |-> ERPRecord(vId,
                                            SplitNumbers(getVal(row, getIdx("invoice_number")), << >>),
                                            getVal(row, getIdx("seller_tax_id")),
                                            parseAmount(getVal(row, getIdx("amount_total")))) ] >>
                  \o ParseRows(rows, i + 1, headerMap)
             ELSE ParseRows(rows, i + 1, headerMap)

\* the most rows of a spreadsheet
MaxRows == 3

\* a row of sixteen cells of which cells 1, 10, 11 and 15 are given
PositionalRow(c1, c10, c11, c15) ==
    [idx \in 1..16 |-> IF idx = 2 THEN c1 ELSE IF idx = 11 THEN c10
                       ELSE IF idx = 12 THEN c11 ELSE IF idx = 16 THEN c15 ELSE << >>]

\* the rows of a spreadsheet: a title line, header rows, rows of a sheet
\* with header (voucher, invoice numbers, total), rows of a sheet without
\* header, an empty row
SheetRows ==
    { << << "Ledger" >>, << "2024" >> >>,
      << << "Voucher", " ", "NO." >>, << "Invoice No" >>, << "Total Amount" >> >>,
      << << "Invoice No" >>, << "Total Amount" >>, << " ", "Voucher" >> >>,
      << << "a" >>, << "AB", "1", ",", "AB", "2" >>, << "210" >> >>,
      << << "AB", "1" >>, << "105" >>, << "b" >> >>,
      PositionalRow(<< "a" >>, << "AB", "1" >>, << "12345678" >>, << "105" >>),
      << >> }

InitSheet ==
    /\ sheet \in { [ pc |-> "read", rows |-> rows, parsed |-> << >> ] :
                   rows \in SeqsUpTo(SheetRows, MaxRows) }
    /\ invoices = << >>
    /\ erpData = << >>
    /\ uploads = 0
    /\ batch = "none"
    /\ newProcessQueue = << >>
    /\ queue = << >>
    /\ inFlight = EmptyBag
    /\ changesMap = EmptyMap
    /\ completedCount = 0
    /\ progress = IdleProgress
    /\ seenInvoiceNumbers = {}
    /\ recorded = EmptyMap
    /\ started = << >>
    /\ auditList = << >>
    /\ ax = NoCall
    /\ review = NoReview
    /\ post = NoPost
    /\ second = NoSecond

\* reader.onload: the rows are read and, when a record was found, the ledger
\* is replaced
HandleERPUpload ==
    /\ sheet.pc = "read"
    /\ LET parsed == ParseRows(sheet.rows, 1, << >>)
       IN  /\ sheet' = [sheet EXCEPT !.pc = "imported", !.parsed = parsed]
           /\ erpData' = IF Len(parsed) > 0 THEN [k \in DOMAIN parsed |-> parsed[k].record]
                         ELSE erpData
    /\ UNCHANGED << invoices, uploads, batch, newProcessQueue, queue, inFlight, changesMap,
                    completedCount, progress, seenInvoiceNumbers, recorded, started, auditList,
                    ax, review, post, second >>

NextSheet == HandleERPUpload

SpecSheet == InitSheet /\ [][NextSheet]_vars

\* the first row with a cell that holds a voucher-id keyword; 0 when no row has one
DetectedHeader(rows) ==
    IF \E i \in DOMAIN rows : IsHeaderRow(rows[i])
    THEN CHOOSE i \in DOMAIN rows : IsHeaderRow(rows[i]) /\ \A j \in 1..(i - 1) : ~IsHeaderRow(rows[j])
    ELSE 0

\* C26: ledger records come only from rows after the detected header row, and
\* the fixed column positions are used only when no row of the spreadsheet
\* holds a voucher-id keyword
C26_RecordsFollowHeader ==
    sheet.pc = "imported" =>
        \A k \in DOMAIN sheet.parsed :
            /\ DetectedHeader(sheet.rows) # 0 => sheet.parsed[k].row > DetectedHeader(sheet.rows)
            /\ ~sheet.parsed[k].byHeader => DetectedHeader(sheet.rows) = 0

(***************************************************************************)
(* handleFiles on files whose names differ and whose ids may collide: one  *)
(* upload, run to its end by the worker pool of the upload model           *)
(***************************************************************************)
\* the file names of the upload model and one whose stem is the id that the
\* disambiguation makes for a.pdf
CollidingFileNames == FileNames \cup { << "a", "-", "pdf", ".", "png" >> }

CollidingFiles ==
    { f \in [ name : CollidingFileNames, conv : BOOLEAN ] : ~isTif(f.name) => f.conv }

\* the user picks files of which no two have the same name
UploadNames ==
    /\ uploads = 0
    /\ batch # "running"
    /\ \E files \in SeqsUpTo(CollidingFiles, MaxFiles) :
          /\ files # << >>
          /\ \A i, j \in DOMAIN files : files[i].name = files[j].name => i = j
          /\ HandleFiles(files)
    /\ UNCHANGED << erpData, auditList, ax, review, post, second, sheet >>

NextNames == UploadNames \/ WorkerFinish \/ FlushTick \/ BatchReturn

SpecNames == Init /\ [][NextNames]_vars

\* C28: files with different names never resolve to the same document id: of
\* the entries made for the files of an upload and the entries of the store,
\* no two with the same id hold files of different names
C28_DifferentNamesDifferentIds ==
    \A e1, e2 \in Range(newProcessQueue) \cup Range(invoices) :
        e1.id = e2.id => e1.name = e2.name

\* C29: in a batch every enqueued document id is handed to the extraction
\* exactly once: no id is enqueued twice, and the ids handed to workers
\* together with the ids still queued are the enqueued ids, each as often as
\* it was enqueued
C29_EachIdOnce ==
    batch \in { "running", "returned" } =>
        /\ \A i, j \in DOMAIN newProcessQueue :
              newProcessQueue[i].id = newProcessQueue[j].id => i = j
        /\ SeqToBag(started) (+) SeqToBag(Ids(queue)) = SeqToBag(Ids(newProcessQueue))
        /\ batch = "returned" => queue = << >>

\* the entry of the store shows what the change set
Shows(entry, change) ==
    /\ entry.status = change.status
    /\ "data" \in change.fields => entry.data = change.data
    /\ "error" \in change.fields => entry.error = change.error

\* the last change a batch recorded for the document, of either batch
FinalOutcomes(id) ==
    (IF id \in DOMAIN recorded THEN { recorded[id] } ELSE {})
        \cup (IF id \in DOMAIN second.recorded THEN { second.recorded[id] } ELSE {})

\* C30: when an upload has started while an earlier batch was running and
\* both batches have returned, every document that either batch processed
\* is in the store with the final outcome of its processing
C30_OverlapKeepsOutcomes ==
    batch = "returned" /\ second.pc = "returned" =>
        \A id \in DOMAIN recorded \cup DOMAIN second.recorded :
            \E i \in DOMAIN invoices :
                /\ invoices[i].id = id
                /\ \E change \in FinalOutcomes(id) : Shows(invoices[i], change)

====
